---- MODULE Spec2Model ----
(***************************************************************************)
(* Model of backend/apps/integrations: the rate limiter, make_api_request  *)
(* with its retry policy, the token lifecycle, the event parsers, the      *)
(* webhook signatures, the conflict detection and the health report of     *)
(* utils.py, the Apple, Microsoft Teams and Webex clients, and the webhook *)
(* receiver, OAuth and manual sync views of views.py.                      *)
(*                                                                         *)
(* Time is in seconds.  The cache is Django's cache: a key holds a value   *)
(* and an absolute expiry; an entry whose expiry is <= now is absent.      *)
(***************************************************************************)
EXTENDS Integers, Sequences, FiniteSets, TLC

VARIABLES
    now,        \* wall clock, seconds
    cache,      \* cache key -> [val, exp]; the entry is absent when exp <= now
    calls,      \* history: cache key -> times at which record_api_call completed
    createdAt,  \* history: cache key -> time of the record that created the live counter
    lastCheck,  \* history: the last check_rate_limit call and what it returned
    db,         \* the stored integration row
    pc,         \* task -> position in the handler it runs
    loc,        \* task -> locals of the handler it runs
    ret,        \* task -> what the last finished handler returned
    IntegrationLog,  \* the IntegrationLog rows written so far, oldest first
    server,     \* the provider: does the external event or meeting exist
    api_calls_today, \* the integration's daily counter of recorded API calls
    payload,    \* the input handed to a parser or to the iCalendar writer
    parsed,     \* what the last parser call produced
    session,    \* the organizer's session: OAuth key -> the state stored under it
    integrations,  \* the CalendarIntegration and VideoConferenceIntegration rows
    queue,      \* the sync_calendar_events tasks enqueued so far, oldest first
    last_response,  \* the last request a view handled and what it answered
    issued      \* the state tokens secrets.token_urlsafe has given so far

clientVars == <<IntegrationLog, server, api_calls_today>>
parserVars == <<payload, parsed>>
viewVars == <<session, integrations, queue, last_response, issued>>

vars == <<now, cache, calls, createdAt, lastCheck, db, pc, loc, ret,
          IntegrationLog, server, api_calls_today, payload, parsed,
          session, integrations, queue, last_response, issued>>

----------------------------------------------------------------------------
(* Bounds of the model *)

MaxTime == 120
TickStep == 30
MaxCalls == 3
INTEGRATION_RATE_LIMIT_GOOGLE == 2
INTEGRATION_RATE_LIMIT_MICROSOFT == 3

(* Program constants *)

WINDOW == 60
FALLBACK_LIMIT == 50

Tasks == {"t1", "t2"}
Organizers == {1}
RLProviders == {"google", "outlook"}

\* django.conf.settings: the attributes a deployment sets (the zoom budget is left unset)
settings ==
    [INTEGRATION_RATE_LIMIT_GOOGLE |-> INTEGRATION_RATE_LIMIT_GOOGLE,
     INTEGRATION_RATE_LIMIT_MICROSOFT |-> INTEGRATION_RATE_LIMIT_MICROSOFT]

getattr(obj, name, default) ==
    IF name \in DOMAIN obj THEN obj[name] ELSE default

----------------------------------------------------------------------------
(* Rate limiter *)

rate_limit_key(provider, organizer_id) == <<"rate_limit", provider, organizer_id>>

CacheKeys == {rate_limit_key(p, o) : p \in RLProviders, o \in Organizers}

NoEntry == [val |-> 0, exp |-> 0]

\* cache.get(key, default)
cache_get(c, key, default, t) ==
    IF c[key].exp > t THEN c[key].val ELSE default

\* cache.set(key, value, timeout)
cache_set(c, key, value, timeout, t) ==
    [c EXCEPT ![key] = [val |-> value, exp |-> t + timeout]]

\* the limits dictionary of check_rate_limit and its lookup with the fallback
limit_of(provider) ==
    LET limits == [google |-> getattr(settings, "INTEGRATION_RATE_LIMIT_GOOGLE", 100),
                   outlook |-> getattr(settings, "INTEGRATION_RATE_LIMIT_MICROSOFT", 60),
                   zoom |-> getattr(settings, "INTEGRATION_RATE_LIMIT_ZOOM", 80)]
    IN  IF provider \in DOMAIN limits THEN limits[provider] ELSE FALLBACK_LIMIT

\* check_rate_limit with the comparison current_count > limit
check_rate_limit_strict(c, provider, organizer_id, t) ==
    LET current_count == cache_get(c, rate_limit_key(provider, organizer_id), 0, t)
    IN  IF current_count > limit_of(provider) THEN "RateLimitError" ELSE "ok"

\* check_rate_limit: "ok" for return True, "RateLimitError" for the raise
check_rate_limit(c, provider, organizer_id, t) ==
    LET current_count == cache_get(c, rate_limit_key(provider, organizer_id), 0, t)
    IN  IF current_count >= limit_of(provider) THEN "RateLimitError" ELSE "ok"

\* the value record_api_call stores, given the count it read
record_value(current_count) == current_count + 1

\* the cache after record_api_call
record_api_call(c, provider, organizer_id, t) ==
    LET cache_key == rate_limit_key(provider, organizer_id)
        current_count == cache_get(c, cache_key, 0, t)
    IN  cache_set(c, cache_key, record_value(current_count), WINDOW, t)

\* number of recorded calls of a key in the 60 seconds up to t
RecordedInWindow(key, t) ==
    Cardinality({i \in 1..Len(calls[key]) : calls[key][i] > t - WINDOW})

\* seconds since the last recorded call of a key (WINDOW when there was none)
SinceLastRecord(key, t) ==
    IF calls[key] = <<>> THEN WINDOW ELSE t - calls[key][Len(calls[key])]

NoCheck == [key |-> <<>>, result |-> "none", recorded |-> 0, since |-> 0, raised |-> {}]

Tick ==
    /\ now + TickStep <= MaxTime
    /\ now' = now + TickStep
    /\ UNCHANGED <<cache, calls, createdAt, lastCheck, db, pc, loc, ret, clientVars, parserVars, viewVars>>

CheckRateLimit(p, o) ==
    /\ lastCheck' = [key |-> rate_limit_key(p, o),
                     result |-> check_rate_limit(cache, p, o, now),
                     recorded |-> RecordedInWindow(rate_limit_key(p, o), now),
                     since |-> SinceLastRecord(rate_limit_key(p, o), now),
                     raised |-> IF check_rate_limit(cache, p, o, now) = "RateLimitError"
                                THEN lastCheck.raised \cup {rate_limit_key(p, o)}
                                ELSE lastCheck.raised]
    /\ UNCHANGED <<now, cache, calls, createdAt, db, pc, loc, ret, clientVars, parserVars, viewVars>>

\* history kept with a completed record_api_call
Recorded(key, wasAbsent) ==
    /\ calls' = [calls EXCEPT ![key] = Append(@, now)]
    /\ createdAt' = [createdAt EXCEPT ![key] = IF wasAbsent THEN now ELSE @]

RecordApiCall(p, o) ==
    LET key == rate_limit_key(p, o) IN
    /\ Len(calls[key]) < MaxCalls
    /\ cache' = record_api_call(cache, p, o, now)
    /\ Recorded(key, cache[key].exp <= now)
    /\ UNCHANGED <<now, lastCheck, db, pc, loc, ret, clientVars, parserVars, viewVars>>

NoLocals == [op |-> "none"]
NoReturn == [op |-> "none"]
NoIntegration == [provider |-> "none", access_token |-> "", refresh_token |-> "",
                  token_expires_at |-> 0]

\* record_api_call as its two cache operations: the read of line 60 ...
RecordGet(t, p, o) ==
    LET key == rate_limit_key(p, o) IN
    /\ pc[t] = "idle"
    /\ Len(calls[key]) < MaxCalls
    /\ pc' = [pc EXCEPT ![t] = "record_set"]
    /\ loc' = [loc EXCEPT ![t] = [op |-> "record_api_call", cache_key |-> key,
                                   current_count |-> cache_get(cache, key, 0, now)]]
    /\ UNCHANGED <<now, cache, calls, createdAt, lastCheck, db, ret, clientVars, parserVars, viewVars>>

\* ... and the write of line 61
RecordSet(t) ==
    /\ pc[t] = "record_set"
    /\ cache' = cache_set(cache, loc[t].cache_key, record_value(loc[t].current_count),
                          WINDOW, now)
    /\ Recorded(loc[t].cache_key, cache[loc[t].cache_key].exp <= now)
    /\ pc' = [pc EXCEPT ![t] = "idle"]
    /\ loc' = [loc EXCEPT ![t] = NoLocals]
    /\ ret' = [ret EXCEPT ![t] = [op |-> "record_api_call"]]
    /\ UNCHANGED <<now, lastCheck, db, clientVars, parserVars, viewVars>>

\* no client has run and no parser was handed anything
NoPayload == [kind |-> "none"]
NoParsed == [op |-> "none"]
ClientsIdle == IntegrationLog = <<>> /\ server = FALSE /\ api_calls_today = 0
ParsersIdle == payload = NoPayload /\ parsed = NoParsed
NoResponse == [view |-> "none"]
ViewsIdle ==
    /\ session = <<>> /\ integrations = {} /\ queue = <<>>
    /\ last_response = NoResponse /\ issued = {}

InitRate ==
    /\ now = 0
    /\ cache = [k \in CacheKeys |-> NoEntry]
    /\ calls = [k \in CacheKeys |-> <<>>]
    /\ createdAt = [k \in CacheKeys |-> 0]
    /\ lastCheck = NoCheck
    /\ pc = [t \in Tasks |-> "idle"]
    /\ loc = [t \in Tasks |-> NoLocals]
    /\ ret = [t \in Tasks |-> NoReturn]
    /\ ClientsIdle
    /\ ParsersIdle
    /\ ViewsIdle
    /\ db = NoIntegration

DoCheck == \E p \in RLProviders, o \in Organizers : CheckRateLimit(p, o)
DoRecord == \E p \in RLProviders, o \in Organizers : RecordApiCall(p, o)

NextRate == Tick \/ DoCheck \/ DoRecord

SpecRate == InitRate /\ [][NextRate]_vars

\* two tasks recording calls concurrently
DoRecordGet == \E t \in Tasks, p \in RLProviders, o \in Organizers : RecordGet(t, p, o)
DoRecordSet == \E t \in Tasks : RecordSet(t)

NextRace == Tick \/ DoRecordGet \/ DoRecordSet

SpecRace == InitRate /\ [][NextRace]_vars

----------------------------------------------------------------------------
\* C1: a check made when `limit` calls of the key were recorded within the last
\* 60 seconds raises the rate-limit error, and a check made when 60 seconds have
\* passed since the key's last recorded call succeeds.
C1_LimitThenWindow ==
    lastCheck.result # "none" =>
        /\ lastCheck.recorded >= limit_of(lastCheck.key[2]) => lastCheck.result = "RateLimitError"
        /\ lastCheck.since >= WINDOW => lastCheck.result = "ok"

\* the limit was reached and a check of the key raised; 60 seconds after the last
\* record a check of the same key succeeded
C1_Witness ==
    /\ lastCheck.result = "ok"
    /\ lastCheck.since >= WINDOW
    /\ lastCheck.key \in lastCheck.raised
    /\ Len(calls[lastCheck.key]) >= limit_of(lastCheck.key[2])

\* C2: fixed window: a live counter is never older than 60 seconds, counted from
\* the record that created it (a record on an existing counter does not extend it).
C2_FixedWindow ==
    \A key \in CacheKeys :
        cache[key].exp > now => now < createdAt[key] + WINDOW

\* C3: no recorded call is lost: when no record is in progress and every recorded
\* call of a key lies in the last 60 seconds, the counter equals their number.
C3_AtomicIncrement ==
    \A key \in CacheKeys :
        (/\ \A t \in Tasks : pc[t] = "idle"
         /\ calls[key] # <<>>
         /\ RecordedInWindow(key, now) = Len(calls[key]))
        => cache_get(cache, key, 0, now) = Len(calls[key])

----------------------------------------------------------------------------
(* make_api_request and its retry decorator *)

STOP_AFTER_ATTEMPT == 3

SeqTasks == {"t1"}

Statuses == {200, 401, 403, 404, 429, 500}

\* what requests.request does in one attempt: a response with a status, or one
\* of the exceptions of requests.exceptions (RequestException stands for the
\* classes that are neither Timeout nor ConnectionError)
Outcomes ==
    [kind : {"response"}, status : Statuses]
      \cup [kind : {"Timeout", "ConnectionError", "RequestException"}, status : {0}]

\* `if provider and organizer_id`
rate_limited(provider, organizer_id) == provider # "None" /\ organizer_id # 0

\* the body of make_api_request, lines 90-124: "response" when it returns the
\* response, else the exception that leaves it; rl is what check_rate_limit did
request_result(rl, outcome) ==
    IF rl = "RateLimitError" THEN "RateLimitError"
    ELSE IF outcome.kind = "Timeout" THEN "IntegrationError"
    ELSE IF outcome.kind = "ConnectionError" THEN "IntegrationError"
    ELSE IF outcome.kind = "RequestException" THEN "RequestException"
    ELSE IF outcome.status = 401 THEN "TokenExpiredError"
    ELSE IF outcome.status = 403 THEN "IntegrationError"
    ELSE IF outcome.status = 429 THEN "RateLimitError"
    ELSE IF outcome.status >= 400 THEN "IntegrationError"
    ELSE "response"

\* retry=retry_if_exception_type((RateLimitError, RequestException))
retry_if_exception_type(exc) == exc \in {"RateLimitError", "RequestException"}

\* a stop condition that lets a fourth attempt through
stop_after_attempt_late(attempt_number) == attempt_number > STOP_AFTER_ATTEMPT

\* stop=stop_after_attempt(3)
stop_after_attempt(attempt_number) == attempt_number >= STOP_AFTER_ATTEMPT

\* the decorator after an attempt: "return" the response, "raise" the exception,
\* "retry", or give up with "RetryError"
retry_decision(res, attempt_number) ==
    IF res = "response" THEN "return"
    ELSE IF ~retry_if_exception_type(res) THEN "raise"
    ELSE IF stop_after_attempt(attempt_number) THEN "RetryError"
    ELSE "retry"

\* the cache after an attempt: the call is recorded when a response arrived
cache_after_attempt(c, provider, organizer_id, rl, outcome, t) ==
    IF rate_limited(provider, organizer_id) /\ rl = "ok" /\ outcome.kind = "response"
    THEN record_api_call(c, provider, organizer_id, t)
    ELSE c

\* what check_rate_limit does at the head of an attempt
attempt_check(c, provider, organizer_id, t) ==
    IF rate_limited(provider, organizer_id)
    THEN check_rate_limit(c, provider, organizer_id, t)
    ELSE "ok"

\* how an attempt ended, kept for the history of a call: the outcome of
\* requests.request, or the limiter's refusal before any request was sent
NoAttempt == [kind |-> "none", status |-> 0]
attempt_cause(rl, outcome) ==
    IF rl = "ok" THEN outcome ELSE [kind |-> "rate_limited", status |-> 0]

\* a caller starts make_api_request(..., provider=p, organizer_id=o)
ApiStart(t, p, o) ==
    /\ pc[t] = "idle"
    /\ pc' = [pc EXCEPT ![t] = "attempt"]
    /\ loc' = [loc EXCEPT ![t] = [op |-> "make_api_request", provider |-> p,
                                   organizer_id |-> o, attempt_number |-> 0, sent |-> 0,
                                   prev |-> NoAttempt]]
    /\ ret' = [ret EXCEPT ![t] = NoReturn]
    /\ UNCHANGED <<now, cache, calls, createdAt, lastCheck, db, clientVars, parserVars, viewVars>>

\* one attempt of a make_api_request call and the decorator's decision; the
\* decorator's sleep before the next attempt is time passing (Tick)
ApiAttempt(t, outcome) ==
    /\ pc[t] = "attempt"
    /\ loc[t].op = "make_api_request"
    /\ LET l == loc[t]
           rl == attempt_check(cache, l.provider, l.organizer_id, now)
           res == request_result(rl, outcome)
           n == l.attempt_number + 1
           sent == l.sent + (IF rl = "ok" THEN 1 ELSE 0)
           decision == retry_decision(res, n)
           cause == attempt_cause(rl, outcome)
       IN  /\ cache' = cache_after_attempt(cache, l.provider, l.organizer_id, rl, outcome, now)
           /\ IF decision = "retry"
              THEN /\ loc' = [loc EXCEPT ![t] = [l EXCEPT !.attempt_number = n, !.sent = sent,
                                                          !.prev = cause]]
                   /\ UNCHANGED <<pc, ret>>
              ELSE /\ pc' = [pc EXCEPT ![t] = "idle"]
                   /\ loc' = [loc EXCEPT ![t] = NoLocals]
                   /\ ret' = [ret EXCEPT ![t] =
                                [op |-> "make_api_request",
                                 result |-> IF decision = "return" THEN "response"
                                            ELSE IF decision = "raise" THEN res
                                            ELSE "RetryError",
                                 last |-> res, attempts |-> n, sent |-> sent,
                                 cause |-> cause]]
    /\ UNCHANGED <<now, calls, createdAt, lastCheck, db, clientVars, parserVars, viewVars>>

DoApiStart ==
    \E t \in SeqTasks, p \in RLProviders \cup {"None"}, o \in Organizers : ApiStart(t, p, o)
DoApiAttempt == \E t \in SeqTasks, outcome \in Outcomes : ApiAttempt(t, outcome)

NextApi == Tick \/ DoApiStart \/ DoApiAttempt

SpecApi == InitRate /\ [][NextApi]_vars

\* C10: a make_api_request call makes at most 3 attempts: a call that is still
\* running has made fewer than 3, and a finished call made at most 3.
C10_AtMostThreeAttempts ==
    \A t \in Tasks :
        /\ (pc[t] = "attempt" /\ loc[t].op = "make_api_request")
              => loc[t].attempt_number < STOP_AFTER_ATTEMPT
        /\ ret[t].op = "make_api_request"
              => ret[t].attempts <= STOP_AFTER_ATTEMPT /\ ret[t].sent <= STOP_AFTER_ATTEMPT

\* a call gave up after three attempts that each sent a request
C10_Witness ==
    \E t \in Tasks :
        /\ ret[t].op = "make_api_request"
        /\ ret[t].result = "RetryError"
        /\ ret[t].attempts = STOP_AFTER_ATTEMPT
        /\ ret[t].sent = STOP_AFTER_ATTEMPT

\* the ways an attempt fails that the limiter or the provider do not decide
Transient == {"Timeout", "ConnectionError"}

\* C11: an attempt of make_api_request that fails with a connection error or
\* a timeout is retried while fewer than 3 attempts were made, so a call whose
\* last attempt failed this way made 3 attempts, and its caller receives an
\* IntegrationError; an attempt answered with 401, 403 or another 4xx/5xx
\* status that is not 429 is never followed by another attempt.
C11_TransientRetried ==
    \A t \in Tasks :
        /\ (ret[t].op = "make_api_request" /\ ret[t].cause.kind \in Transient)
              => /\ ret[t].attempts = STOP_AFTER_ATTEMPT
                 /\ ret[t].result = "IntegrationError"
        /\ (pc[t] = "attempt" /\ loc[t].op = "make_api_request"
              /\ loc[t].prev.kind = "response")
              => loc[t].prev.status = 429

----------------------------------------------------------------------------
(* Token lifecycle *)

ShortLife == 30
DEFAULT_EXPIRES_IN == 3600

Providers == {"google", "outlook", "zoom", "apple", "microsoft_teams", "webex", "other"}

\* providers whose refresh routine posts through make_api_request
ApiRefreshProviders == {"google", "outlook", "microsoft_teams", "webex"}

\* Integration.is_token_expired
is_token_expired(integration, t) == t >= integration.token_expires_at

\* a token endpoint's answer: json is FALSE when the body is no JSON document; a
\* key of the document that is missing is "absent"; expires_in is an integer
\* ("int", ShortLife seconds) or a value of another type ("str")
NoBody == [json |-> FALSE, access_token |-> "absent", expires_in |-> "absent",
           refresh_token |-> "absent"]

TokenBodies ==
    {NoBody} \cup [json : {TRUE}, access_token : {"absent", "a1"},
                   expires_in : {"absent", "int", "str"}, refresh_token : {"absent", "r1"}]

\* the bodies that can come with an outcome: only a response carries one
BodiesOf(outcome) == IF outcome.kind = "response" THEN TokenBodies ELSE {NoBody}

\* integration.save(update_fields=...) stores the row or fails with a database error
SaveOutcomes == {"ok", "DatabaseError"}

\* the refresh token taken from the response whether or not it has one
new_refresh_token_always(integration, token_data) == token_data.refresh_token

\* integration.refresh_token after lines 182-183
new_refresh_token(integration, token_data) ==
    IF token_data.refresh_token # "absent"
    THEN token_data.refresh_token
    ELSE integration.refresh_token

\* lines 175-188 of _refresh_google_token (the same in the Microsoft, Zoom and
\* Webex routines): the integration object and the stored row after them, and
\* whether they ended by returning True (ok) or by an exception
apply_token_response(integration, row, token_data, save, t) ==
    LET a == [integration EXCEPT !.access_token = token_data.access_token]
        b == [a EXCEPT !.token_expires_at =
                  t + (IF token_data.expires_in = "absent" THEN DEFAULT_EXPIRES_IN
                       ELSE ShortLife)]
        c == [b EXCEPT !.refresh_token = new_refresh_token(integration, token_data)]
    IN  IF ~token_data.json THEN [obj |-> integration, row |-> row, ok |-> FALSE]
        ELSE IF token_data.access_token = "absent"
             THEN [obj |-> integration, row |-> row, ok |-> FALSE]
        ELSE IF token_data.expires_in = "str" THEN [obj |-> a, row |-> row, ok |-> FALSE]
        ELSE IF save # "ok" THEN [obj |-> c, row |-> row, ok |-> FALSE]
        ELSE [obj |-> c,
              row |-> [row EXCEPT !.access_token = c.access_token,
                                  !.refresh_token = c.refresh_token,
                                  !.token_expires_at = c.token_expires_at],
              ok |-> TRUE]

\* refresh_access_token without the guard on an empty refresh_token
refresh_dispatch_unguarded(integration) ==
    IF integration.provider \in ApiRefreshProviders THEN "attempt"
    ELSE IF integration.provider = "zoom" THEN "post"
    ELSE IF integration.provider = "apple" THEN "True"
    ELSE "False"

\* refresh_access_token up to the provider routine: "False" and "True" when it
\* returns without a request, else the kind of request the routine sends
refresh_dispatch(integration) ==
    IF integration.refresh_token = "" THEN "False"
    ELSE IF integration.provider \in ApiRefreshProviders THEN "attempt"
    ELSE IF integration.provider = "zoom" THEN "post"
    ELSE IF integration.provider = "apple" THEN "True"
    ELSE "False"

\* ensure_valid_token up to the first request
ensure_dispatch(integration, t) ==
    IF ~is_token_expired(integration, t) THEN "True" ELSE refresh_dispatch(integration)

\* the record of a finished ensure_valid_token or refresh_access_token call
TokenReturn(op, result, pre, obj, sent, refreshed, body, called, t) ==
    [op |-> op, result |-> result, pre |-> pre, obj |-> obj, sent |-> sent,
     refreshed |-> refreshed, body |-> body, called |-> called, at |-> t]

TokenOps == {"ensure_valid_token", "refresh_access_token"}

\* a task loads the integration and calls op on it; d is how far the call gets
\* without a request
TokenCall(t, op, d) ==
    /\ pc[t] = "idle"
    /\ IF d \in {"True", "False"}
       THEN /\ ret' = [ret EXCEPT ![t] =
                         TokenReturn(op, d = "True", db, db, 0, FALSE, NoBody, now, now)]
            /\ UNCHANGED <<pc, loc>>
       ELSE /\ pc' = [pc EXCEPT ![t] = d]
            /\ loc' = [loc EXCEPT ![t] = [op |-> op, provider |-> "None",
                                           organizer_id |-> 0, attempt_number |-> 0,
                                           sent |-> 0, pre |-> db, obj |-> db,
                                           called |-> now]]
            /\ ret' = [ret EXCEPT ![t] = NoReturn]
    /\ UNCHANGED <<now, cache, calls, createdAt, lastCheck, db, clientVars, parserVars, viewVars>>

EnsureValidToken(t) == TokenCall(t, "ensure_valid_token", ensure_dispatch(db, now))

RefreshAccessToken(t) == TokenCall(t, "refresh_access_token", refresh_dispatch(db))

\* the refresh routine's continuation once its request has ended: got tells
\* whether a usable response came back
RefreshFinish(t, got, token_data, save, sent) ==
    LET l == loc[t]
        r == IF got THEN apply_token_response(l.obj, db, token_data, save, now)
             ELSE [obj |-> l.obj, row |-> db, ok |-> FALSE]
    IN  /\ db' = r.row
        /\ pc' = [pc EXCEPT ![t] = "idle"]
        /\ loc' = [loc EXCEPT ![t] = NoLocals]
        /\ ret' = [ret EXCEPT ![t] =
                     TokenReturn(l.op, r.ok, l.pre, r.obj, sent, r.ok,
                                 IF got THEN token_data ELSE NoBody, l.called, now)]

\* one attempt of the token request a refresh routine makes through
\* make_api_request (called without provider, so without the rate limiter)
RefreshAttempt(t, outcome, token_data, save) ==
    /\ pc[t] = "attempt"
    /\ loc[t].op \in TokenOps
    /\ LET l == loc[t]
           rl == attempt_check(cache, l.provider, l.organizer_id, now)
           res == request_result(rl, outcome)
           n == l.attempt_number + 1
           sent == l.sent + (IF rl = "ok" THEN 1 ELSE 0)
           decision == retry_decision(res, n)
       IN  IF decision = "retry"
           THEN /\ loc' = [loc EXCEPT ![t] = [l EXCEPT !.attempt_number = n, !.sent = sent]]
                /\ UNCHANGED <<pc, ret, db>>
           ELSE RefreshFinish(t, decision = "return", token_data, save, sent)
    /\ UNCHANGED <<now, cache, calls, createdAt, lastCheck, clientVars, parserVars, viewVars>>

\* _refresh_zoom_token's requests.post, lines 230-233
ZoomPost(t, outcome, token_data, save) ==
    /\ pc[t] = "post"
    /\ RefreshFinish(t, outcome.kind = "response" /\ outcome.status = 200,
                     token_data, save, loc[t].sent + 1)
    /\ UNCHANGED <<now, cache, calls, createdAt, lastCheck, clientVars, parserVars, viewVars>>

\* the integration as oauth_callback stores it (views.py, lines 295-321)
InitToken ==
    /\ now = 0
    /\ cache = [k \in CacheKeys |-> NoEntry]
    /\ calls = [k \in CacheKeys |-> <<>>]
    /\ createdAt = [k \in CacheKeys |-> 0]
    /\ lastCheck = NoCheck
    /\ pc = [t \in Tasks |-> "idle"]
    /\ loc = [t \in Tasks |-> NoLocals]
    /\ ret = [t \in Tasks |-> NoReturn]
    /\ ClientsIdle
    /\ ParsersIdle
    /\ ViewsIdle
    /\ \E p \in Providers, r \in {"", "r0"}, e \in {ShortLife, DEFAULT_EXPIRES_IN} :
          db = [provider |-> p, access_token |-> "a0", refresh_token |-> r,
                token_expires_at |-> now + e]

EnsureBy(T) == \E t \in T : EnsureValidToken(t)
RefreshBy(T) == \E t \in T : RefreshAccessToken(t)
RefreshAttemptBy(T) ==
    \E t \in T, outcome \in Outcomes, save \in SaveOutcomes :
      \E token_data \in BodiesOf(outcome) :
        RefreshAttempt(t, outcome, token_data, save)
ZoomPostBy(T) ==
    \E t \in T, outcome \in Outcomes, save \in SaveOutcomes :
      \E token_data \in BodiesOf(outcome) :
        ZoomPost(t, outcome, token_data, save)

NextToken ==
    Tick \/ EnsureBy(SeqTasks) \/ RefreshBy(SeqTasks) \/ RefreshAttemptBy(SeqTasks)
      \/ ZoomPostBy(SeqTasks)

SpecToken == InitToken /\ [][NextToken]_vars

\* Two tasks working on the same integration at the instant its access token
\* expires: the calls interleave at the requests, each task holding its own copy
\* of the integration.
InitTokenRace ==
    /\ now = ShortLife
    /\ cache = [k \in CacheKeys |-> NoEntry]
    /\ calls = [k \in CacheKeys |-> <<>>]
    /\ createdAt = [k \in CacheKeys |-> 0]
    /\ lastCheck = NoCheck
    /\ pc = [t \in Tasks |-> "idle"]
    /\ loc = [t \in Tasks |-> NoLocals]
    /\ ret = [t \in Tasks |-> NoReturn]
    /\ ClientsIdle
    /\ ParsersIdle
    /\ ViewsIdle
    /\ \E p \in Providers, r \in {"", "r0"} :
          db = [provider |-> p, access_token |-> "a0", refresh_token |-> r,
                token_expires_at |-> ShortLife]

NextTokenRace == EnsureBy(Tasks) \/ RefreshAttemptBy(Tasks) \/ ZoomPostBy(Tasks)

SpecTokenRace == InitTokenRace /\ [][NextTokenRace]_vars

\* the tasks that are inside the token refresh of the integration
Refreshing == {t \in Tasks : pc[t] \in {"attempt", "post"} /\ loc[t].op \in TokenOps}

\* C4: the token refresh of an integration never runs concurrently with itself:
\* at most one task is inside the refresh exchange at any time.
C4_SingleRefresh == Cardinality(Refreshing) <= 1

\* C5: a token refresh that fails (the call returns False) leaves access_token,
\* refresh_token and token_expires_at of the integration as they were.
C5_FailureLeavesUntouched ==
    \A t \in Tasks :
        (ret[t].op \in TokenOps /\ ~ret[t].result) => ret[t].obj = ret[t].pre

\* C6: after a successful refresh the access token and the expiry are the new
\* ones, the refresh token is the response's when it has one and the old one
\* otherwise, and the stored row holds the same three values.
C6_SuccessfulRefresh ==
    \A t \in Tasks :
        (ret[t].op \in TokenOps /\ ret[t].refreshed) =>
            /\ ret[t].result
            /\ ret[t].obj.access_token = ret[t].body.access_token
            /\ ret[t].obj.token_expires_at =
                  ret[t].at + (IF ret[t].body.expires_in = "absent" THEN DEFAULT_EXPIRES_IN
                               ELSE ShortLife)
            /\ ret[t].body.refresh_token # "absent"
                  => ret[t].obj.refresh_token = ret[t].body.refresh_token
            /\ ret[t].body.refresh_token = "absent"
                  => ret[t].obj.refresh_token = ret[t].pre.refresh_token
            /\ db = ret[t].obj

\* a refresh succeeded on a response without refresh_token
C6_Witness ==
    \E t \in Tasks :
        /\ ret[t].op \in TokenOps
        /\ ret[t].refreshed
        /\ ret[t].body.refresh_token = "absent"
        /\ ret[t].pre.refresh_token = "r0"
        /\ ret[t].obj.refresh_token = "r0"
        /\ ret[t].obj.access_token # ret[t].pre.access_token
        /\ ret[t].sent >= 1

\* C7: ensure_valid_token on an integration whose token is expired and whose
\* refresh_token is empty returns False, sends no request and changes nothing.
C7_NoRefreshToken ==
    \A t \in Tasks :
        (/\ ret[t].op = "ensure_valid_token"
         /\ is_token_expired(ret[t].pre, ret[t].called)
         /\ ret[t].pre.refresh_token = "")
        => /\ ~ret[t].result
           /\ ret[t].sent = 0
           /\ ret[t].obj = ret[t].pre
           /\ db = ret[t].pre

\* ensure_valid_token returned on an expired integration without refresh token
C7_Witness ==
    \E t \in Tasks :
        /\ ret[t].op = "ensure_valid_token"
        /\ is_token_expired(ret[t].pre, ret[t].called)
        /\ ret[t].pre.refresh_token = ""
        /\ ret[t].pre.provider = "google"
        /\ ~ret[t].result

\* C8: a token refresh of an Apple integration returns True, whatever its
\* refresh_token and expiry, without a request and without changing it.
C8_AppleRefreshSucceeds ==
    \A t \in Tasks :
        (ret[t].op = "refresh_access_token" /\ ret[t].pre.provider = "apple")
        => ret[t].result /\ ret[t].sent = 0 /\ ret[t].obj = ret[t].pre

\* C9: when ensure_valid_token returns True the integration is not expired at
\* the moment of return.
C9_TrueMeansValid ==
    \A t \in Tasks :
        (ret[t].op = "ensure_valid_token" /\ ret[t].result)
        => ~is_token_expired(ret[t].obj, ret[t].at)

----------------------------------------------------------------------------
(* Event parsers and the iCalendar writer *)

MaxHour == 2
MaxResponses == 3
DAY == 24

\* wall-clock readings, in hours, and day numbers of a date-only value
Hours == 0..MaxHour
Days == 0..1

\* an aware datetime: its wall-clock reading and the UTC offset of its zone
datetime(wall, offset) == [wall |-> wall, offset |-> offset]

\* the instant an aware datetime stands for; Python compares by it
instant(dt) == dt.wall - dt.offset

\* dt.astimezone(timezone.utc)
astimezone_utc(dt) == datetime(dt.wall - dt.offset, 0)

\* the offset a zone designator of an ISO string stands for ('Z' is replaced
\* by '+00:00' before datetime.fromisoformat reads it)
utcoffset(tz) == IF tz = "+01:00" THEN 1 ELSE 0

\* ZoneInfo(self.organizer.profile.timezone_name)
TimezoneNames == {"UTC", "Europe/Paris"}
ZoneInfo(timezone_name) == IF timezone_name = "Europe/Paris" THEN 1 ELSE 0

\* event_data.get(key, default) for a key that may be absent
get_or(value, default) == IF value = "absent" THEN default ELSE value

\* what a parser call gives its caller
Returned(event) == [result |-> "event", event |-> event]
ReturnedNone == [result |-> "None"]
Raised(exc) == [result |-> "raise", exc |-> exc]

\* the start and end objects of a Google event: {'date': ...} of an all-day
\* event or {'dateTime': ...} of a timed one
GoogleTimes ==
    [key : {"date"}, value : Days, tz : {""}]
      \cup [key : {"dateTime"}, value : Hours, tz : {"Z", "+01:00"}]

GooglePayloads ==
    [kind : {"google"}, id : {"g1"}, start : GoogleTimes, end : GoogleTimes,
     status : {"absent", "confirmed", "cancelled"},
     transparency : {"absent", "opaque", "transparent"}]

\* strptime(start['date'], '%Y-%m-%d').replace(tzinfo=utc), or
\* fromisoformat(start['dateTime'].replace('Z', '+00:00'))
google_datetime(t) ==
    IF t.key = "date" THEN datetime(t.value * DAY, 0)
    ELSE datetime(t.value, utcoffset(t.tz))

parse_google_calendar_event(event_data) ==
    IF event_data.start.key = "date" /\ event_data.end.key # "date"
    THEN Raised("KeyError")
    ELSE IF event_data.start.key # "date" /\ event_data.end.key # "dateTime"
    THEN Raised("KeyError")
    ELSE Returned([external_id |-> event_data.id,
                   start_datetime |-> google_datetime(event_data.start),
                   end_datetime |-> google_datetime(event_data.end),
                   status |-> get_or(event_data.status, "confirmed"),
                   transparency |-> get_or(event_data.transparency, "opaque")])

\* the start and end objects of an Outlook event: a dateTime with or without
\* an offset
OutlookTimes == [value : Hours, tz : {"naive", "+00:00", "+01:00"}]

OutlookPayloads ==
    [kind : {"outlook"}, id : {"o1"}, start : OutlookTimes, end : OutlookTimes,
     isCancelled : {"absent", "false", "true"},
     showAs : {"absent", "busy", "free"}]

\* fromisoformat, a naive value taken as UTC, then astimezone(timezone.utc)
outlook_datetime(t) ==
    astimezone_utc(IF t.tz = "naive" THEN datetime(t.value, 0)
                   ELSE datetime(t.value, utcoffset(t.tz)))

parse_outlook_calendar_event(event_data) ==
    Returned([external_id |-> event_data.id,
              start_datetime |-> outlook_datetime(event_data.start),
              end_datetime |-> outlook_datetime(event_data.end),
              status |-> IF get_or(event_data.isCancelled, "false") = "true"
                         THEN "cancelled" ELSE "confirmed",
              transparency |-> IF event_data.showAs # "free" THEN "opaque"
                               ELSE "transparent"])

\* the value of an iCalendar line: a text, or a date-time in one of the forms
\* YYYYMMDDTHHMMSSZ ("utc"), YYYYMMDDTHHMMSS ("local"), YYYYMMDD ("date"), or
\* something strptime rejects ("bad")
IcalText(text) == [form |-> "text", text |-> text, v |-> 0]
IcalTime(form, v) == [form |-> form, text |-> "", v |-> v]
IcalAbsent == [form |-> "absent", text |-> "", v |-> 0]
IcalTimes ==
    {IcalTime(form, v) : form \in {"utc", "local"}, v \in Hours}
      \cup {IcalTime("date", v) : v \in Days}
      \cup {IcalTime("bad", 0)}

\* one line NAME[;PARAMS]:VALUE of an iCalendar text
Line(name, params, value) == [name |-> name, params |-> params, value |-> value]

\* the properties of a VEVENT that a provider may send, and its text
VeventFields ==
    [uid : {"", "u1"}, dtstart : IcalTimes \cup {IcalAbsent},
     dtend : IcalTimes \cup {IcalAbsent},
     status : {"absent", "CONFIRMED", "CANCELLED"},
     transp : {"absent", "OPAQUE", "TRANSPARENT"}]
NoFields ==
    [uid |-> "", dtstart |-> IcalAbsent, dtend |-> IcalAbsent, status |-> "absent",
     transp |-> "absent"]
vevent_text(f) ==
    <<Line("BEGIN", "", IcalText("VCALENDAR")), Line("VERSION", "", IcalText("2.0")),
      Line("BEGIN", "", IcalText("VEVENT"))>>
      \o (IF f.uid # "" THEN <<Line("UID", "", IcalText(f.uid))>> ELSE <<>>)
      \o (IF f.dtstart # IcalAbsent THEN <<Line("DTSTART", "", f.dtstart)>> ELSE <<>>)
      \o (IF f.dtend # IcalAbsent THEN <<Line("DTEND", "", f.dtend)>> ELSE <<>>)
      \o (IF f.status # "absent" THEN <<Line("STATUS", "", IcalText(f.status))>> ELSE <<>>)
      \o (IF f.transp # "absent" THEN <<Line("TRANSP", "", IcalText(f.transp))>> ELSE <<>>)
      \o <<Line("END", "", IcalText("VEVENT")), Line("END", "", IcalText("VCALENDAR"))>>

NoBooking == [kind |-> "none"]

\* an iCalendar text in the hands of the client of an organizer
IcalPayload(text, fields, timezone_name, booking) ==
    [kind |-> "ical", text |-> text, fields |-> fields,
     timezone_name |-> timezone_name, booking |-> booking]

IcalPayloads ==
    {IcalPayload(vevent_text(f), f, z, NoBooking) : f \in VeventFields, z \in TimezoneNames}

\* the dictionary event_data and its lookups
EmptyDict == [k \in {} |-> IcalAbsent]
dict_get(d, k, default) == IF k \in DOMAIN d THEN d[k] ELSE default

\* the loop over the lines of an iCalendar text: the properties between
\* BEGIN:VEVENT and the first END:VEVENT, a later line replacing an earlier
\* one of the same name, parameters dropped from the name
RECURSIVE ical_event_data(_, _, _, _)
ical_event_data(lines, i, in_event, event_data) ==
    IF i > Len(lines) THEN event_data
    ELSE LET line == lines[i]
         IN  IF line = Line("BEGIN", "", IcalText("VEVENT"))
             THEN ical_event_data(lines, i + 1, TRUE, event_data)
             ELSE IF line = Line("END", "", IcalText("VEVENT"))
             THEN event_data
             ELSE IF ~in_event
             THEN ical_event_data(lines, i + 1, in_event, event_data)
             ELSE ical_event_data(lines, i + 1, in_event,
                                  (line.name :> line.value) @@ event_data)

\* `'UID' not in event_data or 'DTSTART' not in event_data or ...`
has_required(event_data) ==
    "UID" \in DOMAIN event_data /\ "DTSTART" \in DOMAIN event_data
        /\ "DTEND" \in DOMAIN event_data

ParsedDatetime(dt) == [ok |-> TRUE, dt |-> dt]
NoDatetime == [ok |-> FALSE, dt |-> datetime(0, 0)]

\* _parse_ical_datetime of utils.py: a local time is taken as UTC
_parse_ical_datetime(dt_string) ==
    IF dt_string.form = "utc" THEN ParsedDatetime(datetime(dt_string.v, 0))
    ELSE IF dt_string.form = "local" THEN ParsedDatetime(datetime(dt_string.v, 0))
    ELSE IF dt_string.form = "date" THEN ParsedDatetime(datetime(dt_string.v * DAY, 0))
    ELSE NoDatetime

\* AppleCalendarClient._parse_ical_datetime: a local time is in the
\* organizer's zone and converted to UTC
client_parse_ical_datetime(dt_string, timezone_name) ==
    IF dt_string.form = "utc" THEN ParsedDatetime(datetime(dt_string.v, 0))
    ELSE IF dt_string.form = "local"
    THEN ParsedDatetime(astimezone_utc(datetime(dt_string.v, ZoneInfo(timezone_name))))
    ELSE IF dt_string.form = "date" THEN ParsedDatetime(datetime(dt_string.v * DAY, 0))
    ELSE NoDatetime

\* is the event cancelled or free time
is_excluded(event_data) ==
    \/ dict_get(event_data, "STATUS", IcalText("CONFIRMED")) = IcalText("CANCELLED")
    \/ dict_get(event_data, "TRANSP", IcalText("OPAQUE")) = IcalText("TRANSPARENT")

\* the tail of both iCalendar parsers, from the required fields on
ical_event(event_data, start_datetime, end_datetime) ==
    IF ~start_datetime.ok \/ ~end_datetime.ok THEN ReturnedNone
    ELSE IF is_excluded(event_data) THEN ReturnedNone
    ELSE Returned([external_id |-> event_data["UID"].text,
                   start_datetime |-> start_datetime.dt,
                   end_datetime |-> end_datetime.dt,
                   status |-> "confirmed", transparency |-> "opaque"])

parse_apple_calendar_event(ical_data) ==
    LET event_data == ical_event_data(ical_data, 1, FALSE, EmptyDict)
    IN  IF ~has_required(event_data) THEN ReturnedNone
        ELSE ical_event(event_data, _parse_ical_datetime(event_data["DTSTART"]),
                        _parse_ical_datetime(event_data["DTEND"]))

\* AppleCalendarClient._parse_ical_event
_parse_ical_event(ical_data, timezone_name) ==
    LET event_data == ical_event_data(ical_data, 1, FALSE, EmptyDict)
    IN  IF ~has_required(event_data) THEN ReturnedNone
        ELSE ical_event(event_data,
                        client_parse_ical_datetime(event_data["DTSTART"], timezone_name),
                        client_parse_ical_datetime(event_data["DTEND"], timezone_name))

\* the response elements of a CalDAV REPORT answer: each holds the text of one
\* event in its calendar-data element, or no calendar-data
ResponseFields ==
    {[uid |-> "u1", dtstart |-> IcalTime("utc", 0), dtend |-> IcalTime("utc", 1),
      status |-> "CONFIRMED", transp |-> "OPAQUE"],
     [uid |-> "u1", dtstart |-> IcalTime("local", 1), dtend |-> IcalTime("local", 2),
      status |-> "absent", transp |-> "absent"],
     [uid |-> "", dtstart |-> IcalTime("utc", 0), dtend |-> IcalTime("utc", 1),
      status |-> "CONFIRMED", transp |-> "OPAQUE"],
     [uid |-> "u1", dtstart |-> IcalAbsent, dtend |-> IcalTime("utc", 1),
      status |-> "CONFIRMED", transp |-> "OPAQUE"],
     [uid |-> "u1", dtstart |-> IcalTime("utc", 0), dtend |-> IcalAbsent,
      status |-> "CONFIRMED", transp |-> "OPAQUE"],
     [uid |-> "u1", dtstart |-> IcalTime("utc", 0), dtend |-> IcalTime("utc", 1),
      status |-> "CANCELLED", transp |-> "OPAQUE"],
     [uid |-> "u1", dtstart |-> IcalTime("utc", 0), dtend |-> IcalTime("utc", 1),
      status |-> "CONFIRMED", transp |-> "TRANSPARENT"]}
Responses ==
    {[has_data |-> TRUE, fields |-> f, text |-> vevent_text(f)] : f \in ResponseFields}
      \cup {[has_data |-> FALSE, fields |-> NoFields, text |-> <<>>]}

CaldavPayloads ==
    {[kind |-> "caldav", xml_ok |-> TRUE, responses |-> rs, timezone_name |-> z] :
        rs \in UNION {[1..n -> Responses] : n \in 1..MaxResponses}, z \in {"UTC"}}
      \cup {[kind |-> "caldav", xml_ok |-> FALSE, responses |-> <<>>,
             timezone_name |-> "UTC"]}

\* an abort of the batch: an element that gives no event empties the list
append_event_or_abort(events, event) ==
    IF event.result = "event" THEN Append(events, event.event) ELSE <<>>

\* `if event: events.append(event)`
append_event(events, event) ==
    IF event.result = "event" THEN Append(events, event.event) ELSE events

\* the body of the loop over the response elements
response_step(events, response, timezone_name) ==
    IF ~response.has_data THEN events
    ELSE append_event(events, _parse_ical_event(response.text, timezone_name))

RECURSIVE caldav_events(_, _, _, _)
caldav_events(responses, i, events, timezone_name) ==
    IF i > Len(responses) THEN events
    ELSE caldav_events(responses, i + 1,
                       response_step(events, responses[i], timezone_name), timezone_name)

\* AppleCalendarClient._parse_caldav_events_response
_parse_caldav_events_response(xml_content) ==
    IF ~xml_content.xml_ok THEN <<>>
    ELSE caldav_events(xml_content.responses, 1, <<>>, xml_content.timezone_name)

\* the bookings handed to the iCalendar writer: their times are aware
\* datetimes, in UTC or in a zone one hour ahead
BookingTimes == {datetime(wall, offset) : wall \in Hours, offset \in {0, 1}}
Bookings ==
    [kind : {"booking"}, uid : {"booking-1@calendly-clone.com"},
     start_time : BookingTimes, end_time : BookingTimes, created_at : {datetime(0, 0)},
     meeting_link : {"", "https://meet.example/1"},
     location_details : {"", "Room 1"}, timezone_name : TimezoneNames]

\* dt.strftime('%Y%m%dT%H%M%SZ'): the wall-clock reading followed by Z
strftime_Z(dt) == IcalTime("utc", dt.wall)

\* AppleCalendarClient._create_ical_event
_create_ical_event(booking, event_uid) ==
    <<Line("BEGIN", "", IcalText("VCALENDAR")),
      Line("VERSION", "", IcalText("2.0")),
      Line("PRODID", "", IcalText("-//Calendly Clone//EN")),
      Line("CALSCALE", "", IcalText("GREGORIAN")),
      Line("METHOD", "", IcalText("PUBLISH")),
      Line("BEGIN", "", IcalText("VEVENT")),
      Line("UID", "", IcalText(event_uid)),
      Line("DTSTART", "", strftime_Z(booking.start_time)),
      Line("DTEND", "", strftime_Z(booking.end_time)),
      Line("DTSTAMP", "", strftime_Z(booking.created_at)),
      Line("CREATED", "", strftime_Z(booking.created_at)),
      Line("SUMMARY", "", IcalText("summary")),
      Line("DESCRIPTION", "", IcalText("description")),
      Line("ORGANIZER", "CN=organizer", IcalText("mailto:organizer")),
      Line("ATTENDEE", "CN=invitee;RSVP=TRUE", IcalText("mailto:invitee")),
      Line("STATUS", "", IcalText("CONFIRMED")),
      Line("TRANSP", "", IcalText("OPAQUE")),
      Line("SEQUENCE", "", IcalText("0"))>>
      \o (IF booking.meeting_link # ""
          THEN <<Line("DESCRIPTION", "", IcalText("description and meeting link"))>>
          ELSE <<>>)
      \o (IF booking.location_details # ""
          THEN <<Line("LOCATION", "", IcalText(booking.location_details))>>
          ELSE <<>>)
      \o <<Line("END", "", IcalText("VEVENT")), Line("END", "", IcalText("VCALENDAR"))>>

----------------------------------------------------------------------------
(* The Apple, Microsoft Teams and Webex clients *)

MaxLog == 2
MaxApiCalls == 3
RATE_LIMIT_PER_DAY == 2

Clients == {"apple", "microsoft_teams", "webex"}
VideoClients == {"microsoft_teams", "webex"}
ClientMethods == {"get_busy_times", "create", "update", "delete"}

\* get_busy_times, create_event, update_event, delete_event of AppleCalendarClient;
\* create_meeting, update_meeting, delete_meeting of the two video clients
methods_of(client) ==
    IF client = "apple" THEN ClientMethods ELSE ClientMethods \ {"get_busy_times"}

\* booking.external_calendar_event_id, or the external_meeting_id argument
ExternalIds == {"", "e1"}

HttpStatuses == {200, 201, 204, 401, 404, 500}

\* what urlopen meets: an HTTP answer with a status and a body (the body of an
\* error answer may carry the words "not found", the body of another may be
\* XML that does not parse), or no answer at all
Transport ==
    [kind : {"status"}, status : {st \in HttpStatuses : st < 400},
     body : {"", "malformed xml"}]
      \cup [kind : {"status"}, status : {st \in HttpStatuses : st >= 400},
            body : {"", "not found"}]
      \cup {[kind |-> "URLError", status |-> 0, body |-> ""]}

NoError == [kind |-> "none", text |-> "", code |-> 0, body |-> ""]

\* _make_caldav_request, _make_graph_request, _make_webex_request: the response
\* of urlopen, which raises HTTPError for a status >= 400, or the Exception
\* that leaves the helper; its message holds the status code and the body
request_helper(access_token, outcome) ==
    IF access_token = ""
    THEN [kind |-> "Exception", text |-> "request failed", code |-> 0, body |-> ""]
    ELSE IF outcome.kind = "URLError"
    THEN [kind |-> "Exception", text |-> "connection error", code |-> 0, body |-> ""]
    ELSE IF outcome.status >= 400
    THEN [kind |-> "Exception", text |-> "HTTP error", code |-> outcome.status,
          body |-> outcome.body]
    ELSE [kind |-> "response", text |-> "", code |-> outcome.status,
          body |-> outcome.body]

\* urlopen was reached: _get_auth_headers / _get_headers did not raise
request_sent(access_token) == access_token # ""

\* a test that looks for the words "not found" only
is_not_found_words_only(e) == e.body = "not found"

\* `'404' in str(e) or 'not found' in str(e).lower()`
is_not_found(e) == e.code = 404 \/ e.body = "not found"

\* the status codes an operation takes for success
success_codes(client, method) ==
    IF method = "get_busy_times" THEN {st \in HttpStatuses : st < 400}
    ELSE IF method = "delete" THEN {200, 204, 404}
    ELSE IF client = "apple" THEN (IF method = "create" THEN {201, 204} ELSE {200, 204})
    ELSE IF client = "microsoft_teams" /\ method = "create" THEN {201}
    ELSE {200}

\* Integration.can_make_api_call and Integration.record_api_call: the daily
\* budget of the integration
can_make_api_call(n) == n < RATE_LIMIT_PER_DAY
integration_record_api_call(n) == n + 1

log_type_of(client, method) ==
    IF method = "get_busy_times" THEN "calendar_sync"
    ELSE IF client = "apple" THEN
        (IF method = "create" THEN "calendar_event_created"
         ELSE IF method = "update" THEN "calendar_event_updated"
         ELSE "calendar_event_deleted")
    ELSE IF method = "create" THEN "video_link_created"
    ELSE IF method = "update" THEN "video_meeting_updated"
    ELSE "video_meeting_deleted"

\* log_integration_activity: one IntegrationLog row
log_integration_activity(client, method, success) ==
    <<[integration_type |-> client, log_type |-> log_type_of(client, method),
       success |-> success]>>

\* does the operation ask the daily budget before its request
checks_budget(client, method) == client \in VideoClients /\ method = "create"

\* response['content'] of a REPORT answer: XML that does not parse, or a
\* multistatus with one event
response_content(body) ==
    IF body = "malformed xml"
    THEN [kind |-> "caldav", xml_ok |-> FALSE, responses |-> <<>>, timezone_name |-> "UTC"]
    ELSE [kind |-> "caldav", xml_ok |-> TRUE,
          responses |-> <<[has_data |-> TRUE,
                           fields |-> [NoFields EXCEPT !.uid = "u1",
                                           !.dtstart = IcalTime("utc", 0),
                                           !.dtend = IcalTime("utc", 1)],
                           text |-> vevent_text([NoFields EXCEPT !.uid = "u1",
                                                     !.dtstart = IcalTime("utc", 0),
                                                     !.dtend = IcalTime("utc", 1)])]>>,
          timezone_name |-> "UTC"]

\* the `except Exception as e` clause of an operation
except_clause(client, method, e) ==
    IF method = "delete" /\ is_not_found(e)
    THEN [result |-> "True", error |-> NoError, logs |-> <<>>, events |-> <<>>]
    ELSE [result |-> IF method \in {"create", "get_busy_times"} THEN "raise" ELSE "False",
          error |-> IF method \in {"create", "get_busy_times"} THEN e ELSE NoError,
          logs |-> log_integration_activity(client, method, FALSE), events |-> <<>>]

\* the try block of an operation after its request came back with a response
after_response(client, method, r) ==
    IF r.code \in success_codes(client, method)
    THEN [result |-> IF method \in {"create", "get_busy_times"} THEN "value" ELSE "True",
          error |-> NoError,
          logs |-> log_integration_activity(client, method, TRUE),
          events |-> IF method = "get_busy_times"
                     THEN _parse_caldav_events_response(response_content(r.body))
                     ELSE <<>>]
    ELSE except_clause(client, method,
             [kind |-> "Exception", text |-> "Unexpected response status",
              code |-> r.code, body |-> ""])

\* one client operation from entry to return or raise: what the caller gets,
\* the rows logged, the requests sent, the calls recorded on the integration,
\* and whether the daily budget was asked
client_call(client, method, ext_id, access_token, calls_today, outcome) ==
    IF client = "apple" /\ method = "update" /\ ext_id = ""
    THEN [result |-> "raise",
          error |-> [kind |-> "ValueError", text |-> "No external calendar event ID found",
                     code |-> 0, body |-> ""],
          logs |-> <<>>, events |-> <<>>, sent |-> 0, recorded |-> 0, checked |-> FALSE]
    ELSE IF client = "apple" /\ method = "delete" /\ ext_id = ""
    THEN [result |-> "True", error |-> NoError, logs |-> <<>>, events |-> <<>>,
          sent |-> 0, recorded |-> 0, checked |-> FALSE]
    ELSE IF checks_budget(client, method) /\ ~can_make_api_call(calls_today)
    THEN LET x == except_clause(client, method,
                      [kind |-> "Exception", text |-> "Daily API rate limit exceeded",
                       code |-> 0, body |-> ""])
         IN  [result |-> x.result, error |-> x.error, logs |-> x.logs,
              events |-> x.events, sent |-> 0,
              recorded |-> 0, checked |-> TRUE]
    ELSE LET r == request_helper(access_token, outcome)
             sent == IF request_sent(access_token) THEN 1 ELSE 0
             x == IF r.kind = "response" THEN after_response(client, method, r)
                  ELSE except_clause(client, method, r)
         IN  [result |-> x.result, error |-> x.error, logs |-> x.logs,
              events |-> x.events, sent |-> sent,
              recorded |-> IF r.kind = "response" /\ client \in VideoClients
                           THEN 1 ELSE 0,
              checked |-> checks_budget(client, method)]

\* the provider after the operation: a created event exists, a deleted one
\* does not
server_after(method, sent, outcome, exists) ==
    IF sent = 0 \/ outcome.kind # "status" THEN exists
    ELSE IF method = "create" /\ outcome.status < 400 THEN TRUE
    ELSE IF method = "delete" /\ outcome.status \in {200, 204} THEN FALSE
    ELSE exists

\* the provider answers a DELETE with a status below 400 only for an event it has,
\* and with 404 only for one it does not have; an XML body is the answer to a
\* REPORT
provider_can_answer(method, ext_id, exists, outcome) ==
    /\ (method = "delete" /\ outcome.kind = "status")
          => /\ outcome.status < 400 => (ext_id # "" /\ exists)
             /\ outcome.status = 404 => ~(ext_id # "" /\ exists)
    /\ outcome.body = "malformed xml" => method = "get_busy_times"

\* a task runs one operation of the client built on the stored integration
ClientCall(t, method, ext_id, outcome) ==
    /\ pc[t] = "idle"
    /\ db.provider \in Clients
    /\ method \in methods_of(db.provider)
    /\ Len(IntegrationLog) < MaxLog
    /\ api_calls_today < MaxApiCalls
    /\ provider_can_answer(method, ext_id, server, outcome)
    /\ LET r == client_call(db.provider, method, ext_id, db.access_token,
                            api_calls_today, outcome)
       IN  /\ IntegrationLog' = IntegrationLog \o r.logs
           /\ api_calls_today' = IF r.recorded = 1
                                 THEN integration_record_api_call(api_calls_today)
                                 ELSE api_calls_today
           /\ server' = server_after(method, r.sent, outcome, server)
           /\ ret' = [ret EXCEPT ![t] =
                        [op |-> "client", client |-> db.provider, method |-> method,
                         ext_id |-> ext_id, outcome |-> outcome, existed |-> server,
                         can |-> can_make_api_call(api_calls_today),
                         result |-> r.result, error |-> r.error, logged |-> Len(r.logs),
                         events |-> r.events,
                         sent |-> r.sent, recorded |-> r.recorded, checked |-> r.checked]]
    /\ UNCHANGED <<now, cache, calls, createdAt, lastCheck, db, pc, loc, parserVars, viewVars>>

\* a client is built on an integration of its provider, with or without a
\* stored access token
InitClient ==
    /\ now = 0
    /\ cache = [k \in CacheKeys |-> NoEntry]
    /\ calls = [k \in CacheKeys |-> <<>>]
    /\ createdAt = [k \in CacheKeys |-> 0]
    /\ lastCheck = NoCheck
    /\ pc = [t \in Tasks |-> "idle"]
    /\ loc = [t \in Tasks |-> NoLocals]
    /\ ret = [t \in Tasks |-> NoReturn]
    /\ \E c \in Clients, tok \in {"", "a1"} :
          db = [provider |-> c, access_token |-> tok, refresh_token |-> "",
                token_expires_at |-> 0]
    /\ IntegrationLog = <<>>
    /\ server \in BOOLEAN
    /\ api_calls_today = 0
    /\ ParsersIdle
    /\ ViewsIdle

NextClient ==
    \E t \in SeqTasks, method \in ClientMethods, ext_id \in ExternalIds, outcome \in Transport :
        ClientCall(t, method, ext_id, outcome)

SpecClient == InitClient /\ [][NextClient]_vars

\* the last operation of task t was `method` of a client and sent a request
\* that the provider answered with a status
Answered(t, method) ==
    /\ ret[t].op = "client"
    /\ ret[t].method = method
    /\ ret[t].sent = 1
    /\ ret[t].outcome.kind = "status"

\* C12: in every client, a delete that the provider carried out (200 or 204
\* for an event it had) returns True, and a delete that the provider answered
\* with 404 returns True: a not-found answer is never reported as a failure.
C12_DeleteIdempotent ==
    \A t \in Tasks :
        Answered(t, "delete") =>
            /\ (ret[t].existed /\ ret[t].outcome.status \in {200, 204})
                  => ret[t].result = "True"
            /\ ret[t].outcome.status = 404 => ret[t].result = "True"

\* an event was deleted with success, logged, and the same delete sent again
\* met 404 and returned True
C12_Witness ==
    \E t \in Tasks :
        /\ Answered(t, "delete")
        /\ ret[t].ext_id = "e1"
        /\ ret[t].outcome.status = 404
        /\ ret[t].result = "True"
        /\ ~server
        /\ \E i \in 1..Len(IntegrationLog) :
              /\ IntegrationLog[i].log_type = log_type_of(ret[t].client, "delete")
              /\ IntegrationLog[i].success

\* C13: create and update succeed only for the success status codes of the
\* operation, and for any other status of the provider's answer both raise a
\* failure to the caller that carries the status code.
C13_CreateUpdateRaise ==
    \A t \in Tasks :
        \A method \in {"create", "update"} :
            Answered(t, method) =>
                IF ret[t].outcome.status \in success_codes(ret[t].client, method)
                THEN ret[t].result \in {"value", "True"}
                ELSE ret[t].result = "raise" /\ ret[t].error.code = ret[t].outcome.status

\* C14: every client operation has appended at least one IntegrationLog row
\* when it returns or raises.
C14_EveryOperationLogs ==
    \A t \in Tasks : ret[t].op = "client" => ret[t].logged >= 1

\* C15: the Teams and Webex clients ask can_make_api_call in every create,
\* update and delete, and when it is false the operation sends no request.
C15_BudgetCheckedFirst ==
    \A t \in Tasks :
        (ret[t].op = "client" /\ ret[t].client \in VideoClients)
            => /\ ret[t].checked
               /\ ~ret[t].can => ret[t].sent = 0

\* C16: in the Teams and Webex clients every create, update and delete that
\* sent a request called record_api_call exactly once, whatever the outcome
\* of the request.
C16_RecordedAfterRequest ==
    \A t \in Tasks :
        (ret[t].op = "client" /\ ret[t].client \in VideoClients /\ ret[t].sent = 1)
            => ret[t].recorded = 1

----------------------------------------------------------------------------
(* Calls of the parsers and of the iCalendar writer *)

ParseGoogle ==
    /\ payload.kind = "google"
    /\ parsed' = [op |-> "parse_google_calendar_event",
                  out |-> parse_google_calendar_event(payload)]
    /\ UNCHANGED <<now, cache, calls, createdAt, lastCheck, db, pc, loc, ret,
                   clientVars, payload, viewVars>>

ParseOutlook ==
    /\ payload.kind = "outlook"
    /\ parsed' = [op |-> "parse_outlook_calendar_event",
                  out |-> parse_outlook_calendar_event(payload)]
    /\ UNCHANGED <<now, cache, calls, createdAt, lastCheck, db, pc, loc, ret,
                   clientVars, payload, viewVars>>

ParseApple ==
    /\ payload.kind = "ical"
    /\ parsed' = [op |-> "parse_apple_calendar_event",
                  out |-> parse_apple_calendar_event(payload.text)]
    /\ UNCHANGED <<now, cache, calls, createdAt, lastCheck, db, pc, loc, ret,
                   clientVars, payload, viewVars>>

ParseIcalEvent ==
    /\ payload.kind = "ical"
    /\ parsed' = [op |-> "_parse_ical_event",
                  out |-> _parse_ical_event(payload.text, payload.timezone_name)]
    /\ UNCHANGED <<now, cache, calls, createdAt, lastCheck, db, pc, loc, ret,
                   clientVars, payload, viewVars>>

ParseCaldavResponse ==
    /\ payload.kind = "caldav"
    /\ parsed' = [op |-> "_parse_caldav_events_response",
                  out |-> [result |-> "list",
                           events |-> _parse_caldav_events_response(payload)]]
    /\ UNCHANGED <<now, cache, calls, createdAt, lastCheck, db, pc, loc, ret,
                   clientVars, payload, viewVars>>

\* the client writes the event body of a booking; the text is then at hand
\* as what the calendar holds for the organizer
CreateIcalEvent ==
    /\ payload.kind = "booking"
    /\ payload' = IcalPayload(_create_ical_event(payload, payload.uid), NoFields,
                              payload.timezone_name, payload)
    /\ parsed' = NoParsed
    /\ UNCHANGED <<now, cache, calls, createdAt, lastCheck, db, pc, loc, ret, clientVars, viewVars>>

\* the date-time strings handed to the two _parse_ical_datetime functions,
\* with the zone configured for the organizer of the client
DatetimePayloads ==
    [kind : {"ical_datetime"}, dt_string : IcalTimes, timezone_name : TimezoneNames]

ParseIcalDatetime ==
    /\ payload.kind = "ical_datetime"
    /\ parsed' = [op |-> "_parse_ical_datetime",
                  out |-> _parse_ical_datetime(payload.dt_string)]
    /\ UNCHANGED <<now, cache, calls, createdAt, lastCheck, db, pc, loc, ret,
                   clientVars, payload, viewVars>>

ClientParseIcalDatetime ==
    /\ payload.kind = "ical_datetime"
    /\ parsed' = [op |-> "AppleCalendarClient._parse_ical_datetime",
                  out |-> client_parse_ical_datetime(payload.dt_string,
                                                     payload.timezone_name)]
    /\ UNCHANGED <<now, cache, calls, createdAt, lastCheck, db, pc, loc, ret,
                   clientVars, payload, viewVars>>

\* a parser is handed one payload of a provider, the writer one booking
InitParser ==
    /\ now = 0
    /\ cache = [k \in CacheKeys |-> NoEntry]
    /\ calls = [k \in CacheKeys |-> <<>>]
    /\ createdAt = [k \in CacheKeys |-> 0]
    /\ lastCheck = NoCheck
    /\ pc = [t \in Tasks |-> "idle"]
    /\ loc = [t \in Tasks |-> NoLocals]
    /\ ret = [t \in Tasks |-> NoReturn]
    /\ db = NoIntegration
    /\ ClientsIdle
    /\ payload \in GooglePayloads \cup OutlookPayloads \cup IcalPayloads
                     \cup CaldavPayloads \cup Bookings \cup DatetimePayloads
    /\ parsed = NoParsed
    /\ ViewsIdle

NextParser ==
    \/ ParseGoogle
    \/ ParseOutlook
    \/ ParseApple
    \/ ParseIcalEvent
    \/ ParseCaldavResponse
    \/ CreateIcalEvent
    \/ ParseIcalDatetime
    \/ ClientParseIcalDatetime

SpecParser == InitParser /\ [][NextParser]_vars

\* the events a parser call gave: the one it returned, or those of its list
ParsedEvents ==
    IF parsed.op = "none" \/ payload.kind = "ical_datetime" THEN {}
    ELSE IF parsed.out.result = "event" THEN {parsed.out.event}
    ELSE IF parsed.out.result = "list"
    THEN {parsed.out.events[i] : i \in 1..Len(parsed.out.events)}
    ELSE {}

\* C17: no event that a parser of Google, Outlook or Apple payloads produces
\* has status cancelled or transparency transparent.
C17_NoCancelledNoTransparent ==
    \A e \in ParsedEvents : e.status # "cancelled" /\ e.transparency # "transparent"

\* C18: every event that a parser produces starts before it ends.
C18_StartBeforeEnd ==
    \A e \in ParsedEvents : instant(e.start_datetime) < instant(e.end_datetime)

\* a VEVENT that holds UID, DTSTART and DTEND with readable times and is
\* neither cancelled nor transparent
well_formed(f) ==
    /\ f.uid # ""
    /\ f.dtstart.form \in {"utc", "local", "date"}
    /\ f.dtend.form \in {"utc", "local", "date"}
    /\ f.status # "CANCELLED"
    /\ f.transp # "TRANSPARENT"

lacks_required(f) == f.uid = "" \/ f.dtstart = IcalAbsent \/ f.dtend = IcalAbsent

\* C19: for a CalDAV answer, the parser gives None for every VEVENT that lacks
\* UID, DTSTART or DTEND, the answer is parsed to a list, and the list holds,
\* in the order of the answer, the event of every well-formed, confirmed,
\* opaque VEVENT of the answer and nothing else.
C19_MalformedSkipped ==
    (parsed.op = "_parse_caldav_events_response" /\ payload.xml_ok) =>
        LET rs == payload.responses
            good == SelectSeq(rs, LAMBDA r : r.has_data /\ well_formed(r.fields))
        IN  /\ \A i \in 1..Len(rs) :
                  (rs[i].has_data /\ lacks_required(rs[i].fields))
                      => _parse_ical_event(rs[i].text, payload.timezone_name) = ReturnedNone
            /\ parsed.out.result = "list"
            /\ Len(parsed.out.events) = Len(good)
            /\ \A i \in 1..Len(good) :
                  parsed.out.events[i] =
                      _parse_ical_event(good[i].text, payload.timezone_name).event

\* an answer whose first VEVENT is well-formed and whose second lacks a
\* required property was parsed, and the first event is in the list
C19_Witness ==
    /\ parsed.op = "_parse_caldav_events_response"
    /\ payload.xml_ok
    /\ Len(payload.responses) >= 2
    /\ payload.responses[1].has_data /\ well_formed(payload.responses[1].fields)
    /\ payload.responses[2].has_data /\ lacks_required(payload.responses[2].fields)
    /\ Len(parsed.out.events) >= 1
    /\ parsed.out.events[1].external_id = payload.responses[1].fields.uid

\* C20: the text that _create_ical_event writes for a booking and a uid is
\* parsed by _parse_ical_event to an event whose external_id is the uid and
\* whose start and end are the instants of the booking's start_time and
\* end_time.
C20_RoundTrip ==
    (parsed.op = "_parse_ical_event" /\ payload.booking # NoBooking) =>
        /\ parsed.out.result = "event"
        /\ parsed.out.event.external_id = payload.booking.uid
        /\ instant(parsed.out.event.start_datetime) = instant(payload.booking.start_time)
        /\ instant(parsed.out.event.end_datetime) = instant(payload.booking.end_time)

\* the instant the contract gives a date-time string: a trailing-Z value is
\* UTC, a bare local value is in the organizer's zone, a date is midnight UTC
contract_instant(dt_string, timezone_name) ==
    IF dt_string.form = "utc" THEN dt_string.v
    ELSE IF dt_string.form = "local" THEN dt_string.v - ZoneInfo(timezone_name)
    ELSE dt_string.v * DAY

\* C21: for a date-time string in one of the three forms, the function of
\* utils.py and the method of the Apple client both give a datetime, the two
\* stand for the same instant, and it is the instant of the contract: UTC
\* for a trailing Z, the organizer's zone for a bare local value, midnight
\* UTC for a date.
C21_ParsersAgree ==
    (payload.kind = "ical_datetime" /\ parsed.op # "none"
        /\ payload.dt_string.form \in {"utc", "local", "date"}) =>
        LET u == _parse_ical_datetime(payload.dt_string)
            c == client_parse_ical_datetime(payload.dt_string, payload.timezone_name)
        IN  /\ parsed.out.ok
            /\ u.ok /\ c.ok
            /\ instant(u.dt) = instant(c.dt)
            /\ instant(parsed.out.dt)
                  = contract_instant(payload.dt_string, payload.timezone_name)

\* C22: when the answer to the REPORT of get_busy_times is XML that does not
\* parse, get_busy_times raises to its caller and the IntegrationLog row it
\* writes has success = FALSE; it does not return an event list.
C22_MalformedXmlFailsSync ==
    \A t \in Tasks :
        (Answered(t, "get_busy_times") /\ ret[t].outcome.status < 400
            /\ ret[t].outcome.body = "malformed xml")
            => /\ ret[t].result = "raise"
               /\ ret[t].logged = 1
               /\ ~IntegrationLog[Len(IntegrationLog)].success

----------------------------------------------------------------------------
(* Webhook signatures: validate_webhook_signature_multiple_formats *)

\* the global names of utils.py: what its import statements and its
\* assignment of logger bind.  A function of the module that reads another
\* global name raises NameError at that point
utils_module_names ==
    {"logging", "time", "datetime", "timedelta", "settings", "timezone", "cache",
     "retry", "stop_after_attempt", "wait_exponential", "retry_if_exception_type",
     "requests", "IntegrationLog", "logger"}

Secrets == {"", "s1", "s2"}
\* two raw bodies that differ in one byte
RawBodies == {"body", "bodz"}
HashFunctions == {"sha256", "sha1"}

\* hmac.new(key, msg, hash).hexdigest(): different inputs, different digests
hexdigest(key, msg, hash) == [hash |-> hash, key |-> key, msg |-> msg]
HexDigests == [hash : HashFunctions, key : Secrets \ {""}, msg : RawBodies]
NoDigest == [hash |-> "none"]
\* the number of hexadecimal digits of a digest
hex_length(digest) == IF digest.hash = "sha256" THEN 64 ELSE 40

\* a signature header: the text before the hexadecimal digits, and the digits
SignaturePrefixes == {"sha256=", "v1,t=1,v1=", "v0=", "", "sha1=", "md5="}
EmptyHeader == [prefix |-> "", hex |-> NoDigest]
SignatureHeaders == [prefix : SignaturePrefixes, hex : HexDigests] \cup {EmptyHeader}

signature_formats ==
    << [name |-> "github", prefix |-> "sha256=", digits |-> 64,
        hash_function |-> "sha256", extract |-> "prefix"],
       [name |-> "stripe", prefix |-> "v1,t=1,v1=", digits |-> 64,
        hash_function |-> "sha256", extract |-> "extract_signature"],
       [name |-> "slack", prefix |-> "v0=", digits |-> 64,
        hash_function |-> "sha256", extract |-> "prefix"],
       [name |-> "generic_sha256", prefix |-> "", digits |-> 64,
        hash_function |-> "sha256", extract |-> "group"],
       [name |-> "generic_sha1", prefix |-> "sha1=", digits |-> 40,
        hash_function |-> "sha1", extract |-> "prefix"] >>

\* re.match(format_config['pattern'], signature_header): the patterns are
\* anchored at both ends, a fixed prefix and then 64 or 40 digits
re_match(format_config, signature_header) ==
    /\ signature_header.hex # NoDigest
    /\ signature_header.prefix = format_config.prefix
    /\ hex_length(signature_header.hex) = format_config.digits

\* the digits taken from the header: by the format's own function, by cutting
\* the prefix off, or as the group of the pattern
provided_signature(format_config, signature_header) ==
    signature_header.hex

SignatureResult(valid, error, format_detected) ==
    [result |-> "dict", valid |-> valid, error |-> error,
     format_detected |-> format_detected]

validate_webhook_signature_multiple_formats(body, signature_header, secret) ==
    IF secret = "" \/ signature_header = EmptyHeader
    THEN SignatureResult(FALSE, "Missing secret or signature header", "None")
    \* the list of formats is built before the try block and reads hashlib
    ELSE IF "hashlib" \notin utils_module_names
    THEN Raised("NameError")
    ELSE LET matching == {i \in DOMAIN signature_formats :
                              re_match(signature_formats[i], signature_header)}
         IN  IF matching = {}
             THEN SignatureResult(FALSE, "Unrecognized signature format", "None")
             ELSE LET first == CHOOSE i \in matching : \A j \in matching : i <= j
                      format_config == signature_formats[first]
                  IN  \* hmac is read inside the try block: except Exception
                      IF "hmac" \notin utils_module_names
                      THEN SignatureResult(FALSE, "Validation error", "None")
                      ELSE LET expected_signature ==
                                   hexdigest(secret, body, format_config.hash_function)
                               is_valid ==
                                   expected_signature
                                       = provided_signature(format_config, signature_header)
                           IN  SignatureResult(is_valid,
                                   IF is_valid THEN "None" ELSE "Signature mismatch",
                                   format_config.name)

----------------------------------------------------------------------------
(* Calls of the functions of utils.py that take their whole input as arguments *)

SignaturePayloads ==
    [kind : {"signature"}, payload : RawBodies,
     signature_header : SignatureHeaders, secret : Secrets]

ValidateSignature ==
    /\ payload.kind = "signature"
    /\ parsed' = [op |-> "validate_webhook_signature_multiple_formats",
                  out |-> validate_webhook_signature_multiple_formats(
                              payload.payload, payload.signature_header, payload.secret)]
    /\ UNCHANGED <<now, cache, calls, createdAt, lastCheck, db, pc, loc, ret,
                   clientVars, payload, viewVars>>

\* a header 'sha256=<64 digits>' whose digits are the HMAC-SHA256 of the body
\* under the secret
github_header_of(body, secret) ==
    [prefix |-> "sha256=", hex |-> hexdigest(secret, body, "sha256")]

\* a header that has none of the five shapes
unrecognized(signature_header) ==
    \A i \in DOMAIN signature_formats : ~re_match(signature_formats[i], signature_header)

\* C23: validate_webhook_signature_multiple_formats returns a result and never
\* raises; a header 'sha256=<hex64>' that is the HMAC-SHA256 of the payload under
\* the secret gives valid true with format 'github', the same header with a
\* payload that differs in one byte gives valid false, and a header of none of
\* the five shapes gives valid false with no format detected
C23_SignatureResult ==
    (payload.kind = "signature" /\ parsed.op # "none") =>
        LET out == parsed.out
            header == payload.signature_header
        IN  /\ out.result = "dict"
            /\ (payload.secret # ""
                  /\ header = github_header_of(payload.payload, payload.secret))
                  => (out.valid /\ out.format_detected = "github")
            /\ (payload.secret # ""
                  /\ \E other \in RawBodies \ {payload.payload} :
                         header = github_header_of(other, payload.secret))
                  => ~out.valid
            /\ unrecognized(header)
                  => (~out.valid /\ out.format_detected = "None")

----------------------------------------------------------------------------
(* Conflict detection: detect_integration_conflicts *)

\* the instants 10:00, 10:30, 11:00 and 11:30, counted in half hours from
\* 10:00; two intervals have four end points, so four instants give every
\* order the end points of an event and a block can have
Slots == 0..3

MaxEvents == 2
MaxBlocks == 1

BlockSources == {"manual", "google_calendar"}

\* external events as the sync hands them over: the external_id of an event
\* is its position in the list
ExternalEvents(n) ==
    {events \in [1..n -> [external_id : 1..n, start_datetime : Slots,
                          end_datetime : Slots]] :
        \A i \in 1..n : /\ events[i].external_id = i
                        /\ events[i].start_datetime < events[i].end_datetime}

\* the BlockedTime rows of the organizer in the order of the queryset; the id
\* of a row is its position
BlockedTimes(n) ==
    {blocks \in [1..n -> [id : 1..n, source : BlockSources, start_datetime : Slots,
                          end_datetime : Slots]] :
        \A i \in 1..n : /\ blocks[i].id = i
                        /\ blocks[i].start_datetime < blocks[i].end_datetime}

ConflictPayloads ==
    UNION {[kind : {"conflicts"}, external_events : ExternalEvents(n),
            existing_blocked_times : BlockedTimes(m)] :
               n \in 0..MaxEvents, m \in 0..MaxBlocks}

_determine_overlap_type_strict(start1, end1, start2, end2) ==
    IF start1 < start2 /\ end1 > end2 THEN "complete_overlap"
    ELSE IF start2 <= start1 /\ end2 >= end1 THEN "contained_overlap"
    ELSE IF start1 < end2 /\ end1 > start2 THEN "partial_overlap"
    ELSE "no_overlap"

_determine_overlap_type(start1, end1, start2, end2) ==
    IF start1 <= start2 /\ end1 >= end2 THEN "complete_overlap"
    ELSE IF start2 <= start1 /\ end2 >= end1 THEN "contained_overlap"
    ELSE IF start1 < end2 /\ end1 > start2 THEN "partial_overlap"
    ELSE "no_overlap"

overlapping_blocks_touching(existing_blocked_times, event) ==
    SelectSeq(existing_blocked_times,
              LAMBDA block : /\ block.source = "manual"
                             /\ block.start_datetime <= event.end_datetime
                             /\ block.end_datetime >= event.start_datetime)

\* existing_blocked_times.filter(source='manual', start_datetime__lt=event_end,
\*                               end_datetime__gt=event_start)
overlapping_blocks(existing_blocked_times, event) ==
    SelectSeq(existing_blocked_times,
              LAMBDA block : /\ block.source = "manual"
                             /\ block.start_datetime < event.end_datetime
                             /\ block.end_datetime > event.start_datetime)

overlap_info(event, block) ==
    [external_event |-> [id |-> event.external_id,
                         start |-> event.start_datetime,
                         end |-> event.end_datetime],
     manual_block |-> [id |-> block.id,
                       start |-> block.start_datetime,
                       end |-> block.end_datetime],
     overlap_type |-> _determine_overlap_type(event.start_datetime, event.end_datetime,
                                              block.start_datetime, block.end_datetime)]

\* the entries of one event, in the order of its overlapping blocks
RECURSIVE event_entries(_, _)
event_entries(event, blocks) ==
    IF blocks = <<>> THEN <<>>
    ELSE <<overlap_info(event, Head(blocks))>> \o event_entries(event, Tail(blocks))

\* the entries of all events, in the order the two loops make them
RECURSIVE all_entries(_, _)
all_entries(external_events, existing_blocked_times) ==
    IF external_events = <<>> THEN <<>>
    ELSE event_entries(Head(external_events),
                       overlapping_blocks(existing_blocked_times, Head(external_events)))
             \o all_entries(Tail(external_events), existing_blocked_times)

detect_integration_conflicts(external_events, existing_blocked_times) ==
    LET entries == all_entries(external_events, existing_blocked_times)
    IN  [conflicts |-> SelectSeq(entries,
                           LAMBDA info : info.overlap_type = "complete_overlap"),
         overlaps |-> SelectSeq(entries,
                           LAMBDA info : info.overlap_type # "complete_overlap"),
         total_external_events |-> Len(external_events),
         total_manual_blocks |->
             Len(SelectSeq(existing_blocked_times,
                           LAMBDA block : block.source = "manual"))]

DetectConflicts ==
    /\ payload.kind = "conflicts"
    /\ parsed' = [op |-> "detect_integration_conflicts",
                  out |-> detect_integration_conflicts(payload.external_events,
                                                       payload.existing_blocked_times)]
    /\ UNCHANGED <<now, cache, calls, createdAt, lastCheck, db, pc, loc, ret,
                   clientVars, payload, viewVars>>

\* the positions of a list of entries that are about one event and one block
entries_of(entries, event, block) ==
    {k \in DOMAIN entries : /\ entries[k].external_event.id = event.external_id
                            /\ entries[k].manual_block.id = block.id}

intersect(event, block) ==
    /\ block.start_datetime < event.end_datetime
    /\ block.end_datetime > event.start_datetime

event_contains_block(event, block) ==
    /\ event.start_datetime <= block.start_datetime
    /\ event.end_datetime >= block.end_datetime

block_contains_event(event, block) ==
    /\ block.start_datetime <= event.start_datetime
    /\ block.end_datetime >= event.end_datetime

Detected == payload.kind = "conflicts" /\ parsed.op = "detect_integration_conflicts"

\* C25: detect_integration_conflicts gives exactly one entry for every pair of
\* an external event and a manual block whose intervals intersect, and none for
\* any other pair or for a block that is not manual; the entry is in 'conflicts'
\* exactly when the event interval contains the block interval, and in
\* 'overlaps' otherwise
C25_OneEntryPerIntersection ==
    Detected =>
        \A i \in DOMAIN payload.external_events :
            \A j \in DOMAIN payload.existing_blocked_times :
                LET event == payload.external_events[i]
                    block == payload.existing_blocked_times[j]
                    in_conflicts == Cardinality(entries_of(parsed.out.conflicts, event, block))
                    in_overlaps == Cardinality(entries_of(parsed.out.overlaps, event, block))
                IN  IF block.source = "manual" /\ intersect(event, block)
                    THEN /\ in_conflicts + in_overlaps = 1
                         /\ in_conflicts = 1 <=> event_contains_block(event, block)
                    ELSE in_conflicts + in_overlaps = 0

\* a call that gave an entry for each of two events against one manual block,
\* one in 'conflicts' and one in 'overlaps'
C25_Witness ==
    /\ Detected
    /\ Len(parsed.out.conflicts) = 1
    /\ Len(parsed.out.overlaps) = 1
    /\ parsed.out.conflicts[1].external_event.id # parsed.out.overlaps[1].external_event.id

\* the overlap types of the entries about one event and one block
types_of(event, block) ==
    {(parsed.out.conflicts \o parsed.out.overlaps)[k].overlap_type :
         k \in entries_of(parsed.out.conflicts \o parsed.out.overlaps, event, block)}

\* C26: for intervals with start < end the classifier gives complete_overlap
\* when event and block are the same interval, contained_overlap when the block
\* lies strictly inside the event, partial_overlap when the two intersect and
\* neither contains the other, and no entry when they are disjoint
C26_OverlapTypes ==
    Detected =>
        \A i \in DOMAIN payload.external_events :
            \A j \in DOMAIN payload.existing_blocked_times :
                LET event == payload.external_events[i]
                    block == payload.existing_blocked_times[j]
                IN  block.source = "manual" =>
                        /\ (event.start_datetime = block.start_datetime
                              /\ event.end_datetime = block.end_datetime)
                              => types_of(event, block) = {"complete_overlap"}
                        /\ (event.start_datetime < block.start_datetime
                              /\ block.end_datetime < event.end_datetime)
                              => types_of(event, block) = {"contained_overlap"}
                        /\ (intersect(event, block)
                              /\ ~event_contains_block(event, block)
                              /\ ~block_contains_event(event, block))
                              => types_of(event, block) = {"partial_overlap"}
                        /\ ~intersect(event, block) => types_of(event, block) = {}

\* C26 as the code has it: complete_overlap when the event interval contains
\* the block interval (the same interval included), contained_overlap when the
\* block interval contains the event interval and is not contained in it,
\* partial_overlap when the two intersect and neither contains the other, and
\* no entry when they are disjoint
C26_OverlapTypesAmended ==
    Detected =>
        \A i \in DOMAIN payload.external_events :
            \A j \in DOMAIN payload.existing_blocked_times :
                LET event == payload.external_events[i]
                    block == payload.existing_blocked_times[j]
                IN  block.source = "manual" =>
                        /\ event_contains_block(event, block)
                              => types_of(event, block) = {"complete_overlap"}
                        /\ (block_contains_event(event, block)
                              /\ ~event_contains_block(event, block))
                              => types_of(event, block) = {"contained_overlap"}
                        /\ (intersect(event, block)
                              /\ ~event_contains_block(event, block)
                              /\ ~block_contains_event(event, block))
                              => types_of(event, block) = {"partial_overlap"}
                        /\ ~intersect(event, block) => types_of(event, block) = {}

\* event [10:00,11:30) and manual block [10:30,11:00): the block strictly
\* inside the event came out as complete_overlap; the same call classified
\* the same interval too
C26_Witness ==
    /\ Detected
    /\ \E i \in DOMAIN payload.external_events :
           \E j \in DOMAIN payload.existing_blocked_times :
               LET event == payload.external_events[i]
                   block == payload.existing_blocked_times[j]
               IN  /\ block.source = "manual"
                   /\ event.start_datetime = 0 /\ event.end_datetime = 3
                   /\ block.start_datetime = 1 /\ block.end_datetime = 2
                   /\ types_of(event, block) = {"complete_overlap"}
    /\ \E i \in DOMAIN payload.external_events :
           \E j \in DOMAIN payload.existing_blocked_times :
               LET event == payload.external_events[i]
                   block == payload.existing_blocked_times[j]
               IN  /\ block.source = "manual"
                   /\ event.start_datetime = block.start_datetime
                   /\ event.end_datetime = block.end_datetime

----------------------------------------------------------------------------
(* Integration health: create_integration_health_report *)

MaxSyncErrors == 3
MaxCalendarIntegrations == 1
MaxVideoIntegrations == 1

\* the rows of the organizer as the report reads them; is_token_expired is the
\* property of the model class
CalendarRows ==
    [provider : {"google"}, is_active : BOOLEAN, is_token_expired : BOOLEAN,
     sync_errors : 0..MaxSyncErrors]
VideoRows ==
    [provider : {"zoom"}, is_active : BOOLEAN, is_token_expired : BOOLEAN]

HealthPayloads ==
    UNION {[kind : {"health"}, calendar_integrations : [1..n -> CalendarRows],
            video_integrations : [1..m -> VideoRows]] :
               n \in 0..MaxCalendarIntegrations, m \in 0..MaxVideoIntegrations}

calendar_health_three_allowed(integration) ==
    IF integration.is_active /\ ~integration.is_token_expired
          /\ integration.sync_errors <= 3
    THEN "healthy" ELSE "unhealthy"

calendar_health(integration) ==
    IF integration.is_active /\ ~integration.is_token_expired
          /\ integration.sync_errors < 3
    THEN "healthy" ELSE "unhealthy"

video_health(integration) ==
    IF integration.is_active /\ ~integration.is_token_expired
    THEN "healthy" ELSE "unhealthy"

create_integration_health_report(calendar_integrations, video_integrations) ==
    LET calendar == [i \in DOMAIN calendar_integrations |->
                        [provider |-> calendar_integrations[i].provider,
                         is_active |-> calendar_integrations[i].is_active,
                         token_expired |-> calendar_integrations[i].is_token_expired,
                         sync_errors |-> calendar_integrations[i].sync_errors,
                         health |-> calendar_health(calendar_integrations[i])]]
        video == [i \in DOMAIN video_integrations |->
                        [provider |-> video_integrations[i].provider,
                         is_active |-> video_integrations[i].is_active,
                         token_expired |-> video_integrations[i].is_token_expired,
                         health |-> video_health(video_integrations[i])]]
    IN  [calendar_integrations |-> calendar,
         video_integrations |-> video,
         overall_health |->
             IF \/ \E i \in DOMAIN calendar : calendar[i].health = "unhealthy"
                \/ \E i \in DOMAIN video : video[i].health = "unhealthy"
             THEN "degraded" ELSE "healthy"]

\* the report reads the rows; it saves none
HealthReport ==
    /\ payload.kind = "health"
    /\ parsed' = [op |-> "create_integration_health_report",
                  out |-> create_integration_health_report(
                              payload.calendar_integrations, payload.video_integrations)]
    /\ UNCHANGED <<now, cache, calls, createdAt, lastCheck, db, pc, loc, ret,
                   clientVars, payload, viewVars>>

HealthReported ==
    payload.kind = "health" /\ parsed.op = "create_integration_health_report"

\* the healths of a report are those the rule gives for the rows
HealthsAsRuled ==
    HealthReported =>
        LET report == parsed.out
            calendar == payload.calendar_integrations
            video == payload.video_integrations
        IN  /\ DOMAIN report.calendar_integrations = DOMAIN calendar
            /\ DOMAIN report.video_integrations = DOMAIN video
            /\ \A i \in DOMAIN calendar :
                   report.calendar_integrations[i].health = "healthy"
                       <=> (calendar[i].is_active /\ ~calendar[i].is_token_expired
                               /\ calendar[i].sync_errors < 3)
            /\ \A i \in DOMAIN calendar :
                   report.calendar_integrations[i].health \in {"healthy", "unhealthy"}
            /\ \A i \in DOMAIN video :
                   report.video_integrations[i].health = "healthy"
                       <=> (video[i].is_active /\ ~video[i].is_token_expired)
            /\ \A i \in DOMAIN video :
                   report.video_integrations[i].health \in {"healthy", "unhealthy"}
            /\ report.overall_health = "degraded"
                   <=> \/ \E i \in DOMAIN calendar :
                              ~(calendar[i].is_active /\ ~calendar[i].is_token_expired
                                   /\ calendar[i].sync_errors < 3)
                       \/ \E i \in DOMAIN video :
                              ~(video[i].is_active /\ ~video[i].is_token_expired)
            /\ report.overall_health \in {"healthy", "degraded"}

\* C27: in create_integration_health_report a calendar integration is healthy
\* exactly when it is active, its token is not expired and sync_errors < 3, a
\* video integration exactly when it is active and its token is not expired;
\* overall_health is 'degraded' exactly when an integration of the organizer is
\* unhealthy and 'healthy' otherwise, also with no integration; and building
\* the report changes no integration
C27_HealthReport ==
    /\ []HealthsAsRuled
    /\ [][HealthReport => (/\ payload'.calendar_integrations = payload.calendar_integrations
                           /\ payload'.video_integrations = payload.video_integrations)]_vars

\* a report over an active calendar integration with a live token and two sync
\* errors, found healthy, and an inactive video integration: degraded
C27_Witness ==
    /\ HealthReported
    /\ Len(payload.calendar_integrations) = 1
    /\ payload.calendar_integrations[1].sync_errors = 2
    /\ parsed.out.calendar_integrations[1].health = "healthy"
    /\ Len(payload.video_integrations) = 1
    /\ ~payload.video_integrations[1].is_active
    /\ parsed.out.overall_health = "degraded"

----------------------------------------------------------------------------
(* The functions of utils.py above, each handed one input *)

InitUtils ==
    /\ now = 0
    /\ cache = [k \in CacheKeys |-> NoEntry]
    /\ calls = [k \in CacheKeys |-> <<>>]
    /\ createdAt = [k \in CacheKeys |-> 0]
    /\ lastCheck = NoCheck
    /\ pc = [t \in Tasks |-> "idle"]
    /\ loc = [t \in Tasks |-> NoLocals]
    /\ ret = [t \in Tasks |-> NoReturn]
    /\ db = NoIntegration
    /\ ClientsIdle
    /\ payload \in SignaturePayloads \cup ConflictPayloads \cup HealthPayloads
    /\ parsed = NoParsed
    /\ ViewsIdle

NextUtils ==
    \/ ValidateSignature
    \/ DetectConflicts
    \/ HealthReport

SpecUtils == InitUtils /\ [][NextUtils]_vars

----------------------------------------------------------------------------
(* The views of views.py: the webhook receiver, the OAuth flow, manual sync *)

MaxQueue == 2
MaxTokens == 2

\* the global names of views.py: what its import statements bind and the
\* functions it defines.  A view that reads another global name raises
\* NameError at that point
views_module_names ==
    {"generics", "permissions", "status", "api_view", "permission_classes",
     "Response", "get_object_or_404", "CalendarIntegration",
     "VideoConferenceIntegration", "WebhookIntegration", "IntegrationLog",
     "CalendarIntegrationSerializer", "VideoConferenceIntegrationSerializer",
     "WebhookIntegrationSerializer", "IntegrationLogSerializer",
     "OAuthInitiateSerializer", "OAuthCallbackSerializer",
     "exchange_oauth_code", "get_provider_user_info"}

\* what a view gives back: a Response with a status, or an exception that
\* leaves the view
Answer(status_code, error) ==
    [result |-> "response", status |-> status_code, error |-> error]
Unhandled(exc) == [result |-> "raise", status |-> 0, error |-> exc]

\* an except Exception clause of a view: it writes to logger and answers 500
except_Exception ==
    IF "logger" \in views_module_names
    THEN Answer(500, "Internal server error")
    ELSE Unhandled("NameError")

\* the WebhookIntegration rows: one with a secret key, one without, one inactive
Webhooks ==
    {[id |-> "w1", is_active |-> TRUE, secret_key |-> "s1"],
     [id |-> "w2", is_active |-> TRUE, secret_key |-> ""],
     [id |-> "w3", is_active |-> FALSE, secret_key |-> "s2"]}

\* the webhook_id of the query string: absent, of a row, or of no row
WebhookIds == {"None", "w1", "w2", "w3", "w4"}

\* a POST to the receiver: its JSON body and the first of the four signature
\* headers that is set (EmptyHeader when none is)
WebhookRequests ==
    [webhook_id : WebhookIds, body : RawBodies,
     signature : {EmptyHeader} \cup {[prefix |-> "sha256=",
                                      hex |-> hexdigest("s1", b, "sha256")] : b \in RawBodies}]

webhook_received(webhook) ==
    <<[integration_type |-> "webhook", log_type |-> "webhook_received",
       success |-> TRUE]>>

\* what webhook_receiver answers, whether it called the validator, and the
\* IntegrationLog rows it created
webhook_receiver(request) ==
    LET found == {w \in Webhooks : w.id = request.webhook_id /\ w.is_active}
        out(answer, validated, rows) ==
            [answer |-> answer, validated |-> validated, rows |-> rows]
    IN  IF request.webhook_id = "None"
        THEN out(Answer(400, "Missing webhook_id parameter"), FALSE, <<>>)
        ELSE IF found = {}
        THEN out(Answer(404, "Webhook not found or inactive"), FALSE, <<>>)
        ELSE LET webhook == CHOOSE w \in found : TRUE
                 guarded == webhook.secret_key # ""
                 validation_result ==
                     validate_webhook_signature_multiple_formats(
                         request.body, request.signature, webhook.secret_key)
                 \* the body is parsed, the row created, and the answer built
                 \* with timezone.now()
                 processed ==
                     IF "timezone" \in views_module_names
                     THEN out(Answer(200, "None"), guarded, webhook_received(webhook))
                     ELSE out(except_Exception, guarded, webhook_received(webhook))
             IN  IF ~guarded THEN processed
                 ELSE IF validation_result.result = "raise"
                 THEN out(except_Exception, TRUE, <<>>)
                 ELSE IF "logger" \notin views_module_names
                 \* logger.warning of a refused and logger.info of a passed signature
                 THEN out(except_Exception, TRUE, <<>>)
                 ELSE IF ~validation_result.valid
                 THEN out(Answer(401, "Invalid signature"), TRUE, <<>>)
                 ELSE processed

WebhookReceiver ==
    /\ Len(IntegrationLog) < MaxLog
    /\ \E request \in WebhookRequests :
           LET done == webhook_receiver(request)
           IN  /\ IntegrationLog' = IntegrationLog \o done.rows
               /\ last_response' = [view |-> "webhook_receiver", request |-> request,
                                    answer |-> done.answer, validated |-> done.validated,
                                    logged |-> Len(done.rows), accepted |-> FALSE,
                                    enqueued |-> 0]
    /\ UNCHANGED <<now, cache, calls, createdAt, lastCheck, db, pc, loc, ret,
                   server, api_calls_today, parserVars, session, integrations, queue,
                   issued>>

\* does the signature header of the request validate against its raw body and
\* the secret: the digits are the HMAC of the body, in one of the five shapes
signature_validates(request, secret) ==
    \E i \in DOMAIN signature_formats :
        /\ re_match(signature_formats[i], request.signature)
        /\ request.signature.hex
               = hexdigest(secret, request.body, signature_formats[i].hash_function)

\* C24: webhook_receiver answers 400 to a request with no webhook_id and 404 to
\* one for an unknown or inactive webhook, before any signature validation; for
\* a webhook with a secret key it writes the 'webhook_received' row and answers
\* success only when the signature header validates against the raw body and
\* the secret, and answers 401 with no row otherwise
C24_WebhookReceiver ==
    last_response.view = "webhook_receiver" =>
        LET request == last_response.request
            answer == last_response.answer
            found == {w \in Webhooks : w.id = request.webhook_id /\ w.is_active}
        IN  /\ request.webhook_id = "None"
                  => (answer.status = 400 /\ ~last_response.validated)
            /\ (request.webhook_id # "None" /\ found = {})
                  => (answer.status = 404 /\ ~last_response.validated)
            /\ \A w \in found :
                   w.secret_key # "" =>
                       IF signature_validates(request, w.secret_key)
                       THEN (last_response.logged = 1) <=> (answer.status = 200)
                       ELSE answer.status = 401 /\ last_response.logged = 0

\* the OAuth flow of one organizer in one session
OAuthProviders == {"google"}
IntegrationTypes == {"calendar", "video"}
SessionKeys == OAuthProviders \X IntegrationTypes

\* the values of secrets.token_urlsafe(32), each given once
Tokens == {"token1", "token2"}

\* the state of a callback: a token with some text before it
StatePrefixes == {"", "google:calendar:"}
CallbackStates == [prefix : StatePrefixes, token : Tokens]

\* state.endswith(expected_state): tokens have one length, so the state ends
\* with the expected one when its token is that one
endswith(state, expected_state) == state.token = expected_state

\* an integration row of one of the two tables
calendar_row(id, provider, is_active, access_token) ==
    [table |-> "calendar", id |-> id, provider |-> provider,
     is_active |-> is_active, access_token |-> access_token]

\* the tables before the first request: empty, or holding one calendar
\* integration, active or deactivated
InitialIntegrations ==
    {{}} \cup {{calendar_row(1, "google", a, "old")} : a \in BOOLEAN}

\* objects.update_or_create(organizer=request.user, provider=provider,
\* defaults=...): the row of the pair is updated, or one is created
update_or_create(rows, table, provider, access_token) ==
    LET matching == {r \in rows : r.table = table /\ r.provider = provider}
        others == rows \ matching
        new_id == Cardinality({r \in rows : r.table = table}) + 1
    IN  IF matching = {}
        THEN [rows |-> rows \cup {[table |-> table, id |-> new_id,
                                   provider |-> provider, is_active |-> TRUE,
                                   access_token |-> access_token]},
              id |-> new_id, created |-> TRUE]
        ELSE LET row == CHOOSE r \in matching : TRUE
             IN  [rows |-> others \cup {[row EXCEPT !.is_active = TRUE,
                                                    !.access_token = access_token]},
                  id |-> row.id, created |-> FALSE]

\* a callback: the provider of the request answers the token exchange or fails
OAuthCallbacks ==
    [provider : OAuthProviders, integration_type : IntegrationTypes,
     code : {"code1"}, state : CallbackStates, exchange : {"tokens", "failed"}]

\* what oauth_callback answers and what it leaves in the session, the tables
\* and the task queue
oauth_callback(request, sess, rows, tasks) ==
    LET key == <<request.provider, request.integration_type>>
        expected_state == sess[key]
        out(answer, accepted, s, r, q) ==
            [answer |-> answer, accepted |-> accepted, session |-> s,
             integrations |-> r, queue |-> q]
        failed == out(except_Exception, TRUE, sess, rows, tasks)
    IN  IF expected_state = "None" \/ ~endswith(request.state, expected_state)
        THEN out(Answer(400, "Invalid state parameter"), FALSE, sess, rows, tasks)
        \* exchange_oauth_code reads settings and requests
        ELSE IF ~({"settings", "requests"} \subseteq views_module_names)
        THEN failed
        ELSE IF request.exchange # "tokens"
        THEN failed
        \* the defaults of update_or_create read timezone and timedelta
        ELSE IF ~({"timezone", "timedelta"} \subseteq views_module_names)
        THEN failed
        ELSE LET upsert == update_or_create(rows, request.integration_type,
                                            request.provider, request.code)
             IN  out(Answer(200, "None"), TRUE,
                     [sess EXCEPT ![key] = "None"],
                     upsert.rows,
                     IF request.integration_type = "calendar"
                     THEN Append(tasks, upsert.id) ELSE tasks)

OauthCallback ==
    /\ Len(queue) < MaxQueue
    /\ \E request \in OAuthCallbacks :
           LET done == oauth_callback(request, session, integrations, queue)
           IN  /\ session' = done.session
               /\ integrations' = done.integrations
               /\ queue' = done.queue
               /\ last_response' = [view |-> "oauth_callback", request |-> request,
                                    answer |-> done.answer, validated |-> FALSE,
                                    logged |-> 0, accepted |-> done.accepted,
                                    enqueued |-> Len(done.queue) - Len(queue),
                                    expected_state |-> session[<<request.provider,
                                                        request.integration_type>>]]
    /\ UNCHANGED <<now, cache, calls, createdAt, lastCheck, db, pc, loc, ret,
                   clientVars, parserVars, issued>>

InitiateRequests == [provider : OAuthProviders, integration_type : IntegrationTypes]

\* what initiate_oauth answers after it stored the state: the authorization
\* URL of every provider is built from settings
initiate_oauth(request, state) ==
    IF "settings" \in views_module_names
    THEN Answer(200, "None")
    ELSE Unhandled("NameError")

\* The state is stored in request.session before the URL is built.  When the
\* view raises, whether the session of the request is saved is decided by the
\* session middleware, which these sources do not hold: both are taken
InitiateOauth ==
    /\ Cardinality(issued) < MaxTokens
    /\ \E request \in InitiateRequests, state \in Tokens \ issued, saved \in BOOLEAN :
           LET answer == initiate_oauth(request, state)
               key == <<request.provider, request.integration_type>>
           IN  /\ issued' = issued \cup {state}
               /\ session' = IF answer.result = "response" \/ saved
                             THEN [session EXCEPT ![key] = state]
                             ELSE session
               /\ last_response' = [view |-> "initiate_oauth", request |-> request,
                                    answer |-> answer, validated |-> FALSE,
                                    logged |-> 0, accepted |-> FALSE, enqueued |-> 0,
                                    state |-> state]
    /\ UNCHANGED <<now, cache, calls, createdAt, lastCheck, db, pc, loc, ret,
                   clientVars, parserVars, integrations, queue>>

\* get_object_or_404(CalendarIntegration, pk=pk, organizer=request.user)
calendar_integration(rows, pk) == {r \in rows : r.table = "calendar" /\ r.id = pk}
SyncRequests == [pk : 1..2]

force_calendar_sync(request, rows, tasks) ==
    LET found == calendar_integration(rows, request.pk)
    IN  IF found = {}
        THEN [answer |-> Answer(404, "Not found"), queue |-> tasks]
        ELSE LET integration == CHOOSE r \in found : TRUE
             IN  IF ~integration.is_active
                 THEN [answer |-> Answer(400, "Integration is not active"),
                       queue |-> tasks]
                 ELSE [answer |-> Answer(200, "None"),
                       queue |-> Append(tasks, integration.id)]

refresh_calendar_sync(request, rows, tasks) ==
    LET found == calendar_integration(rows, request.pk)
    IN  IF found = {}
        THEN [answer |-> Answer(404, "Not found"), queue |-> tasks]
        ELSE LET integration == CHOOSE r \in found : TRUE
             IN  [answer |-> Answer(200, "None"),
                  queue |-> Append(tasks, integration.id)]

ForceCalendarSync ==
    /\ Len(queue) < MaxQueue
    /\ \E request \in SyncRequests :
           LET done == force_calendar_sync(request, integrations, queue)
           IN  /\ queue' = done.queue
               /\ last_response' = [view |-> "force_calendar_sync", request |-> request,
                                    answer |-> done.answer, validated |-> FALSE,
                                    logged |-> 0, accepted |-> FALSE,
                                    enqueued |-> Len(done.queue) - Len(queue)]
    /\ UNCHANGED <<now, cache, calls, createdAt, lastCheck, db, pc, loc, ret,
                   clientVars, parserVars, session, integrations, issued>>

RefreshCalendarSync ==
    /\ Len(queue) < MaxQueue
    /\ \E request \in SyncRequests :
           LET done == refresh_calendar_sync(request, integrations, queue)
           IN  /\ queue' = done.queue
               /\ last_response' = [view |-> "refresh_calendar_sync", request |-> request,
                                    answer |-> done.answer, validated |-> FALSE,
                                    logged |-> 0, accepted |-> FALSE,
                                    enqueued |-> Len(done.queue) - Len(queue)]
    /\ UNCHANGED <<now, cache, calls, createdAt, lastCheck, db, pc, loc, ret,
                   clientVars, parserVars, session, integrations, issued>>

InitViews ==
    /\ now = 0
    /\ cache = [k \in CacheKeys |-> NoEntry]
    /\ calls = [k \in CacheKeys |-> <<>>]
    /\ createdAt = [k \in CacheKeys |-> 0]
    /\ lastCheck = NoCheck
    /\ pc = [t \in Tasks |-> "idle"]
    /\ loc = [t \in Tasks |-> NoLocals]
    /\ ret = [t \in Tasks |-> NoReturn]
    /\ db = NoIntegration
    /\ ClientsIdle
    /\ ParsersIdle
    /\ session = [k \in SessionKeys |-> "None"]
    /\ integrations \in InitialIntegrations
    /\ queue = <<>>
    /\ last_response = NoResponse
    /\ issued = {}

NextViews ==
    \/ WebhookReceiver
    \/ InitiateOauth
    \/ OauthCallback
    \/ ForceCalendarSync
    \/ RefreshCalendarSync

SpecViews == InitViews /\ [][NextViews]_vars

\* C28: after any sequence of OAuth callbacks there is at most one active
\* integration per pair of organizer and provider in a table, and a callback
\* whose state was accepted and whose code the provider exchanged has written
\* the tokens to the one record of the pair: it updated the record that was
\* there, or created the first
C28_CallbackUpserts ==
    /\ \A r1, r2 \in integrations :
           (r1.table = r2.table /\ r1.provider = r2.provider
               /\ r1.is_active /\ r2.is_active) => r1 = r2
    /\ (last_response.view = "oauth_callback" /\ last_response.accepted
           /\ last_response.request.exchange = "tokens")
           => \E r \in integrations :
                  /\ r.table = last_response.request.integration_type
                  /\ r.provider = last_response.request.provider
                  /\ r.is_active
                  /\ r.access_token = last_response.request.code

C30_SyncOnlyActive ==
    (last_response.view \in {"force_calendar_sync", "refresh_calendar_sync"}
        /\ last_response.enqueued = 1)
        => \A r \in calendar_integration(integrations, last_response.request.pk) :
               r.is_active

====
